---- MODULE Spec2Model ----
(***************************************************************************)
(* A model of quire (pkg/quire): the Table facade, the Query pipeline, the  *)
(* predicate evaluator and the record codec, over a GridStore that keeps    *)
(* one sheet.                                                               *)
(*                                                                          *)
(* Texts (Go strings) are sequences of one-character strings, so that       *)
(* formatting, lower-casing, substring search and byte-wise comparison are  *)
(* computed and not assumed.  Go values are records tagged by their kind k: *)
(*   [k |-> "string", s |-> text]      [k |-> "int", n |-> integer]         *)
(*   [k |-> "float64", m |-> mantissa, d |-> decimals]   (value m / 10^d)   *)
(*   [k |-> "bool", b |-> BOOLEAN]                                          *)
(*   [k |-> "struct", fields |-> <<[name, tag, val]>>]                      *)
(***************************************************************************)
EXTENDS Integers, Sequences, FiniteSets, TLC

\* ------------------------------------------------------------------------
\* Texts
\* ------------------------------------------------------------------------

\* The characters of the model in byte (ASCII) order.
Ascii ==
    << "!", "+", "-", ".",
       "0", "1", "2", "3", "4", "5", "6", "7", "8", "9", ":",
       "A", "B", "C", "D", "E", "F", "G", "H", "I", "J", "K", "L", "M",
       "N", "O", "P", "Q", "R", "S", "T", "U", "V", "W", "X", "Y", "Z",
       "a", "b", "c", "d", "e", "f", "g", "h", "i", "j", "k", "l", "m",
       "n", "o", "p", "q", "r", "s", "t", "u", "v", "w", "x", "y", "z" >>

Digits == << "0", "1", "2", "3", "4", "5", "6", "7", "8", "9" >>

UpperLetters ==
    << "A", "B", "C", "D", "E", "F", "G", "H", "I", "J", "K", "L", "M",
       "N", "O", "P", "Q", "R", "S", "T", "U", "V", "W", "X", "Y", "Z" >>

LowerLetters ==
    << "a", "b", "c", "d", "e", "f", "g", "h", "i", "j", "k", "l", "m",
       "n", "o", "p", "q", "r", "s", "t", "u", "v", "w", "x", "y", "z" >>

IndexOf(seq, c) == CHOOSE i \in 1..Len(seq) : seq[i] = c

InSeq(seq, c) == \E i \in 1..Len(seq) : seq[i] = c

\* The place of every character in the byte order.
CharCode == [c \in { Ascii[i] : i \in 1..Len(Ascii) } |-> IndexOf(Ascii, c)]

\* The byte order of two characters.
Code(c) == CharCode[c]

DigitSet == { Digits[i] : i \in 1..Len(Digits) }

DigitValues == [c \in DigitSet |-> IndexOf(Digits, c) - 1]

IsDigit(c) == c \in DigitSet

DigitVal(c) == DigitValues[c]

\* The lower-case letter of every capital letter.
LowerOf == [c \in { UpperLetters[i] : i \in 1..Len(UpperLetters) } |->
               LowerLetters[IndexOf(UpperLetters, c)]]

\* strings.ToLower on one character and on a text.
LowerChar(c) == IF c \in DOMAIN LowerOf THEN LowerOf[c] ELSE c

ToLower(s) == [i \in 1..Len(s) |-> LowerChar(s[i])]

\* strings.Contains(s, sub): sub occurs in s as a contiguous run.
Contains(s, sub) ==
    \E i \in 0..(Len(s) - Len(sub)) : SubSeq(s, i + 1, i + Len(sub)) = sub

\* The Go comparison s < t of two strings: byte-wise lexicographic.
RECURSIVE StrLess(_, _)
StrLess(s, t) ==
    IF Len(t) = 0 THEN FALSE
    ELSE IF Len(s) = 0 THEN TRUE
    ELSE IF s[1] # t[1] THEN Code(s[1]) < Code(t[1])
    ELSE StrLess(Tail(s), Tail(t))

\* The decimal digits of a natural number.
RECURSIVE NatDigits(_)
NatDigits(n) ==
    IF n < 10 THEN << Digits[n + 1] >>
    ELSE NatDigits(n \div 10) \o << Digits[(n % 10) + 1] >>

\* strconv.Itoa / the %d verb.
Itoa(n) == IF n < 0 THEN << "-" >> \o NatDigits(0 - n) ELSE NatDigits(n)

RECURSIVE Pow10(_)
Pow10(d) == IF d = 0 THEN 1 ELSE 10 * Pow10(d - 1)

\* d decimal digits of the natural number n, zero padded on the left.
RECURSIVE PadDigits(_, _)
PadDigits(n, d) ==
    IF d = 0 THEN << >>
    ELSE PadDigits(n \div 10, d - 1) \o << Digits[(n % 10) + 1] >>

Abs(n) == IF n < 0 THEN 0 - n ELSE n

\* ------------------------------------------------------------------------
\* Go values and their canonical text
\* ------------------------------------------------------------------------

StrV(s) == [k |-> "string", s |-> s]

IntV(n) == [k |-> "int", n |-> n]

\* A float64 whose value is m / 10^d; d > 0 only when m is no multiple of 10.
FloatV(m, d) == [k |-> "float64", m |-> m, d |-> d]

BoolV(b) == [k |-> "bool", b |-> b]

\* An integer of one of the narrower or unsigned kinds: "uint", "int8",
\* "uint8".
IntOfKind(kind, n) == [k |-> kind, n |-> n]

\* fmt.Sprintf("%v", v) on a string, an integer, a bool, or a float64 that
\* the shortest 'g' format prints without an exponent.
Sprintv(v) ==
    CASE v.k = "string" -> v.s
      [] v.k \in { "int", "uint", "int8", "uint8" } -> Itoa(v.n)
      [] v.k = "bool" -> IF v.b THEN << "t", "r", "u", "e" >> ELSE << "f", "a", "l", "s", "e" >>
      [] v.k = "float64" ->
            IF v.d = 0 THEN Itoa(v.m)
            ELSE (IF v.m < 0 THEN << "-" >> ELSE << >>)
                 \o NatDigits(Abs(v.m) \div Pow10(v.d))
                 \o << "." >>
                 \o PadDigits(Abs(v.m) % Pow10(v.d), v.d)

\* ------------------------------------------------------------------------
\* strconv.ParseFloat on the texts of the model: an optional sign, decimal
\* digits with at most one point and at least one digit.  (The other forms
\* ParseFloat accepts, exponents, hexadecimal floats, Inf, Infinity and NaN,
\* are spelt by no text of the model.)
\* ------------------------------------------------------------------------

Unsigned(s) == IF Len(s) > 0 /\ s[1] \in {"+", "-"} THEN Tail(s) ELSE s

PointCount(s) == Cardinality({i \in 1..Len(s) : s[i] = "."})

ParseFloatOk(s) ==
    LET u == Unsigned(s)
    IN  /\ \A i \in 1..Len(u) : IsDigit(u[i]) \/ u[i] = "."
        /\ PointCount(u) <= 1
        /\ \E i \in 1..Len(u) : IsDigit(u[i])

\* The digits of u read as one natural number, points skipped.
RECURSIVE DigitsValue(_)
DigitsValue(u) ==
    IF Len(u) = 0 THEN 0
    ELSE IF u[Len(u)] = "." THEN DigitsValue(SubSeq(u, 1, Len(u) - 1))
    ELSE 10 * DigitsValue(SubSeq(u, 1, Len(u) - 1)) + DigitVal(u[Len(u)])

\* The number of digits after the point.
Decimals(u) ==
    IF PointCount(u) = 0 THEN 0
    ELSE Len(u) - IndexOf(u, ".")

\* The parsed number as a pair: mantissa m and decimals d, value m / 10^d.
ParseFloat(s) ==
    LET u == Unsigned(s)
        neg == Len(s) > 0 /\ s[1] = "-"
    IN  [m |-> IF neg THEN 0 - DigitsValue(u) ELSE DigitsValue(u), d |-> Decimals(u)]

\* aNum < bNum on parsed numbers.
NumLess(a, b) == a.m * Pow10(b.d) < b.m * Pow10(a.d)

\* ------------------------------------------------------------------------
\* Predicate evaluator
\* ------------------------------------------------------------------------

\* A bug of compareValues: the numeric comparison is left out and the two
\* texts are always compared byte by byte.
compareValuesTextOnly(a, b) ==
    LET aStr == Sprintv(a)
        bStr == Sprintv(b)
    IN  IF StrLess(aStr, bStr) THEN -1
        ELSE IF StrLess(bStr, aStr) THEN 1
        ELSE 0

compareValues(a, b) ==
    LET aStr == Sprintv(a)
        bStr == Sprintv(b)
    IN  IF ParseFloatOk(aStr) /\ ParseFloatOk(bStr)
        THEN LET aNum == ParseFloat(aStr)
                 bNum == ParseFloat(bStr)
             IN  IF NumLess(aNum, bNum) THEN -1
                 ELSE IF NumLess(bNum, aNum) THEN 1
                 ELSE 0
        ELSE IF StrLess(aStr, bStr) THEN -1
        ELSE IF StrLess(bStr, aStr) THEN 1
        ELSE 0

\* Operator names.
OpEq == << "=" >>
OpEqEq == << "=", "=" >>
OpNe == << "!", "=" >>
OpGt == << ">" >>
OpGe == << ">", "=" >>
OpLt == << "<" >>
OpLe == << "<", "=" >>
OpContains == << "c", "o", "n", "t", "a", "i", "n", "s" >>
OpLike == << "l", "i", "k", "e" >>

\* A bug of matchesOperator: "contains" compares without lower-casing and
\* "!=" falls through to the default.
matchesOperatorCaseBug(cell, op, value) ==
    LET cellStr == Sprintv(cell)
        valueStr == Sprintv(value)
    IN  CASE op = OpEq \/ op = OpEqEq -> cellStr = valueStr
          [] op = OpGt -> compareValues(cell, value) > 0
          [] op = OpGe -> compareValues(cell, value) >= 0
          [] op = OpLt -> compareValues(cell, value) < 0
          [] op = OpLe -> compareValues(cell, value) <= 0
          [] op = OpContains \/ op = OpLike -> Contains(cellStr, valueStr)
          [] OTHER -> FALSE

matchesOperator(cell, op, value) ==
    LET cellStr == Sprintv(cell)
        valueStr == Sprintv(value)
    IN  CASE op = OpEq \/ op = OpEqEq -> cellStr = valueStr
          [] op = OpNe -> cellStr # valueStr
          [] op = OpGt -> compareValues(cell, value) > 0
          [] op = OpGe -> compareValues(cell, value) >= 0
          [] op = OpLt -> compareValues(cell, value) < 0
          [] op = OpLe -> compareValues(cell, value) <= 0
          [] op = OpContains \/ op = OpLike -> Contains(ToLower(cellStr), ToLower(valueStr))
          [] OTHER -> FALSE


\* interface equality h == name of a header cell with a Go string.
IfaceEqStr(h, name) == h.k = "string" /\ h.s = name

\* The 0-based index of the first header cell from position i on that is
\* equal to name, -1 if none.
RECURSIVE columnIndexFrom(_, _, _)
columnIndexFrom(headers, name, i) ==
    IF i > Len(headers) THEN -1
    ELSE IF IfaceEqStr(headers[i], name) THEN i - 1
    ELSE columnIndexFrom(headers, name, i + 1)

columnIndex(headers, name) == columnIndexFrom(headers, name, 1)

Filter(column, operator, value) == [Column |-> column, Operator |-> operator, Value |-> value]

\* A bug of matchesFilter: the loop over the header does not stop at the
\* first cell that is the column, so the last such cell decides.
matchesFilterLastColumn(row, headers, filter) ==
    LET P == { i \in 1..Len(headers) : IfaceEqStr(headers[i], filter.Column) }
        colIdx == IF P = { } THEN -1 ELSE (CHOOSE i \in P : \A j \in P : j <= i) - 1
    IN  IF colIdx = -1 \/ colIdx >= Len(row) THEN FALSE
        ELSE matchesOperator(row[colIdx + 1], filter.Operator, filter.Value)

matchesFilter(row, headers, filter) ==
    LET colIdx == columnIndex(headers, filter.Column)
    IN  IF colIdx = -1 \/ colIdx >= Len(row) THEN FALSE
        ELSE matchesOperator(row[colIdx + 1], filter.Operator, filter.Value)

\* ------------------------------------------------------------------------
\* Query pipeline (pure part)
\* ------------------------------------------------------------------------

\* A bug of matchesFilters: only the first filter is evaluated.
matchesFiltersFirstOnly(filters, row, headers) ==
    IF Len(filters) = 0 THEN TRUE
    ELSE LET f == filters[1]
             colIdx == columnIndex(headers, f.Column)
         IN  IF colIdx = -1 \/ colIdx >= Len(row) THEN FALSE
             ELSE matchesOperator(row[colIdx + 1], f.Operator, f.Value)

RECURSIVE matchesFilters(_, _, _)
matchesFilters(filters, row, headers) ==
    IF Len(filters) = 0 THEN TRUE
    ELSE LET f == filters[1]
             colIdx == columnIndex(headers, f.Column)
         IN  IF colIdx = -1 \/ colIdx >= Len(row) THEN FALSE
             ELSE IF ~matchesOperator(row[colIdx + 1], f.Operator, f.Value) THEN FALSE
             ELSE matchesFilters(Tail(filters), row, headers)

applyFilters(qry, rows, headers) ==
    IF Len(qry.filters) = 0 THEN rows
    ELSE LET keep(row) == matchesFilters(qry.filters, row, headers)
         IN  SelectSeq(rows, keep)

Reverse(rows) == [i \in 1..Len(rows) |-> rows[Len(rows) + 1 - i]]

\* A bug of applySort: the rows come back in reverse order when descending.
applySortReversing(qry, rows, headers) == IF qry.descending THEN Reverse(rows) ELSE rows

applySort(qry, rows, headers) == rows

\* A bug of applyLimit: the limit is taken even when it is not positive.
applyLimitNoGuard(qry, rows) ==
    IF qry.limit < Len(rows) THEN SubSeq(rows, 1, IF qry.limit < 0 THEN 0 ELSE qry.limit)
    ELSE rows

applyLimit(qry, rows) ==
    IF qry.limit > 0 /\ qry.limit < Len(rows) THEN SubSeq(rows, 1, qry.limit)
    ELSE rows

\* ------------------------------------------------------------------------
\* Record codec
\* ------------------------------------------------------------------------

TagIgnore == << "-" >>

StructV(fields) == [k |-> "struct", fields |-> fields]

PtrV(elem) == [k |-> "ptr", elem |-> elem]

\* A pointer to a slice whose elements have the struct type etype.
PtrSliceV(etype, items) == [k |-> "ptrslice", etype |-> etype, items |-> items]

Field(name, tag, val) == [name |-> name, tag |-> tag, val |-> val]

ErrNil == << >>

Errorf(msg) == << msg >>

\* fmt.Errorf(msg + ": %w", cause)
Wrap(msg, cause) == << msg >> \o cause

\* A bug of structToValues' loop: the tag is not looked at and every field
\* is emitted.
fieldValuesKeepsIgnored(fields) == [i \in 1..Len(fields) |-> fields[i].val]

\* The values of the fields whose tag is not "-", in declaration order.
RECURSIVE fieldValues(_)
fieldValues(fields) ==
    IF Len(fields) = 0 THEN << >>
    ELSE IF fields[1].tag = TagIgnore THEN fieldValues(Tail(fields))
    ELSE << fields[1].val >> \o fieldValues(Tail(fields))

structToValues(record) ==
    LET v == IF record.k = "ptr" THEN record.elem ELSE record
    IN  IF v.k # "struct"
        THEN [values |-> << >>, err |-> Errorf("record must be a struct")]
        ELSE [values |-> fieldValues(v.fields), err |-> ErrNil]

\* strconv.ParseInt(s, 10, 64) on texts whose value fits: an optional sign
\* and at least one digit, digits only.
ParseIntOk(s) ==
    LET u == Unsigned(s)
    IN  Len(u) >= 1 /\ \A i \in 1..Len(u) : IsDigit(u[i])

ParseInt(s) ==
    IF Len(s) > 0 /\ s[1] = "-" THEN 0 - DigitsValue(Unsigned(s)) ELSE DigitsValue(Unsigned(s))

\* strconv.ParseUint(s, 10, 64): digits only, no sign.
ParseUintOk(s) == Len(s) >= 1 /\ \A i \in 1..Len(s) : IsDigit(s[i])

\* strconv.ParseBool: the texts it accepts.
BoolTrueTexts ==
    { << "1" >>, << "t" >>, << "T" >>, << "t", "r", "u", "e" >>,
      << "T", "R", "U", "E" >>, << "T", "r", "u", "e" >> }

BoolFalseTexts ==
    { << "0" >>, << "f" >>, << "F" >>, << "f", "a", "l", "s", "e" >>,
      << "F", "A", "L", "S", "E" >>, << "F", "a", "l", "s", "e" >> }

\* int8(x) of an int64 x: the low 8 bits, read as two's complement.
TruncInt8(x) == ((x + 128) % 256) - 128

\* uint8(x) of a uint64 x: the low 8 bits.
TruncUint8(x) == x % 256

\* setField: the field's value after the call, given its value before.
\* The text is parsed with 64 bits for every integer kind, and SetInt and
\* SetUint store the number cut to the width of the field.
setField(field, value) ==
    LET valueStr == Sprintv(value)
    IN  CASE field.k = "string" -> StrV(valueStr)
          [] field.k = "int" ->
                IF ParseIntOk(valueStr) THEN IntV(ParseInt(valueStr)) ELSE field
          [] field.k = "int8" ->
                IF ParseIntOk(valueStr)
                THEN IntOfKind("int8", TruncInt8(ParseInt(valueStr)))
                ELSE field
          [] field.k = "uint" ->
                IF ParseUintOk(valueStr) THEN [k |-> "uint", n |-> DigitsValue(valueStr)] ELSE field
          [] field.k = "uint8" ->
                IF ParseUintOk(valueStr)
                THEN IntOfKind("uint8", TruncUint8(DigitsValue(valueStr)))
                ELSE field
          [] field.k = "float64" ->
                IF ParseFloatOk(valueStr)
                THEN LET f == ParseFloat(valueStr) IN FloatV(f.m, f.d)
                ELSE field
          [] field.k = "bool" ->
                IF valueStr \in BoolTrueTexts THEN BoolV(TRUE)
                ELSE IF valueStr \in BoolFalseTexts THEN BoolV(FALSE)
                ELSE field
          [] OTHER -> field

\* A bug of scanRow's loop: the column is looked up by the field's name
\* also when the field has a tag.
scanFieldIgnoresTag(row, headers, f) ==
    IF f.tag = TagIgnore THEN f
    ELSE LET colIdx == columnIndex(headers, f.name)
         IN  IF colIdx = -1 \/ colIdx >= Len(row) THEN f
             ELSE [f EXCEPT !.val = setField(f.val, row[colIdx + 1])]

\* A bug of scanRow's loop: the header cells and the column name are
\* compared without regard to letter case.
scanFieldFoldsCase(row, headers, f) ==
    IF f.tag = TagIgnore THEN f
    ELSE LET colName == IF f.tag # << >> THEN f.tag ELSE f.name
             folded == [i \in 1..Len(headers) |->
                          IF headers[i].k = "string" THEN StrV(ToLower(headers[i].s))
                          ELSE headers[i]]
             colIdx == columnIndex(folded, ToLower(colName))
         IN  IF colIdx = -1 \/ colIdx >= Len(row) THEN f
             ELSE [f EXCEPT !.val = setField(f.val, row[colIdx + 1])]

\* One field of scanRow's loop.
scanField(row, headers, f) ==
    IF f.tag = TagIgnore THEN f
    ELSE LET colName == IF f.tag # << >> THEN f.tag ELSE f.name
             colIdx == columnIndex(headers, colName)
         IN  IF colIdx = -1 \/ colIdx >= Len(row) THEN f
             ELSE [f EXCEPT !.val = setField(f.val, row[colIdx + 1])]

\* scanRow into the struct dest: the struct after the call.
scanRow(row, headers, dest) ==
    StructV([i \in 1..Len(dest.fields) |-> scanField(row, headers, dest.fields[i])])

\* The error of scanRow: its destination, or what it points to when it is a
\* pointer, must be a struct.  (A nil pointer points to nothing, which is
\* of no kind.)
scanRowErr(dest) ==
    LET d == IF dest.k = "ptr" THEN dest.elem ELSE dest
    IN  IF d.k # "struct" THEN Errorf("dest must be a struct") ELSE ErrNil

\* A bug of scanIntoSlice: the decoded records replace the elements the
\* destination held instead of following them.
scanIntoSliceReplaces(rows, headers, dest) ==
    IF dest.k # "ptrslice"
    THEN [dest |-> dest, err |-> Errorf("dest must be a pointer to a slice")]
    ELSE IF Len(rows) > 0 /\ scanRowErr(dest.etype) # ErrNil
    THEN [dest |-> dest, err |-> scanRowErr(dest.etype)]
    ELSE [dest |-> [dest EXCEPT !.items =
                       [i \in 1..Len(rows) |-> scanRow(rows[i], headers, dest.etype)]],
          err |-> ErrNil]

\* scanIntoSlice: the destination after the call and the error returned.
\* etype is the zero value of the slice's element type, which every row is
\* decoded into; the error of the first row leaves the loop before the
\* slice is stored.
scanIntoSlice(rows, headers, dest) ==
    IF dest.k # "ptrslice"
    THEN [dest |-> dest, err |-> Errorf("dest must be a pointer to a slice")]
    ELSE IF Len(rows) > 0 /\ scanRowErr(dest.etype) # ErrNil
    THEN [dest |-> dest, err |-> scanRowErr(dest.etype)]
    ELSE [dest |-> [dest EXCEPT !.items =
                       dest.items \o [i \in 1..Len(rows) |-> scanRow(rows[i], headers, dest.etype)]],
          err |-> ErrNil]

\* ------------------------------------------------------------------------
\* Range addresses
\* ------------------------------------------------------------------------

\* A bug of columnIndexToLetter: the letters are the digits of the index in
\* ordinary base 26, A standing for zero, so that 26 comes out as "BA".
RECURSIVE columnIndexToLetterPlain(_)
columnIndexToLetterPlain(index) ==
    IF index < 0 THEN << "A" >>
    ELSE LET last == << UpperLetters[(index % 26) + 1] >>
             next == index \div 26
         IN  IF next > 0 THEN columnIndexToLetterPlain(next) \o last ELSE last

\* A bug of columnIndexToLetter: each letter is put after the letters found
\* so far instead of before them, so that 27 comes out as "BA".
RECURSIVE columnIndexToLetterAppends(_)
columnIndexToLetterAppends(index) ==
    IF index < 0 THEN << "A" >>
    ELSE LET last == << UpperLetters[(index % 26) + 1] >>
             next == (index \div 26) - 1
         IN  IF next >= 0 THEN last \o columnIndexToLetterAppends(next) ELSE last

RECURSIVE columnIndexToLetter(_)
columnIndexToLetter(index) ==
    IF index < 0 THEN << "A" >>
    ELSE LET last == << UpperLetters[(index % 26) + 1] >>
             next == (index \div 26) - 1
         IN  IF next >= 0 THEN columnIndexToLetter(next) \o last ELSE last

\* fmt.Sprintf("%s!A%d:%s%d", name, row, endCol, row)
rangeA1(name, row, endCol) ==
    name \o << "!", "A" >> \o Itoa(row) \o << ":" >> \o endCol \o Itoa(row)


\* ------------------------------------------------------------------------
\* GridStore: the sheet behind the SheetsClient interface
\* ------------------------------------------------------------------------

Max(a, b) == IF a > b THEN a ELSE b

\* A value as the sheet returns it after the JSON transport: a Go integer
\* comes back as a float64 number, texts and booleans as they are.
storeCell(v) ==
    IF v.k \in { "int", "uint", "int8", "uint8" } THEN FloatV(v.n, 0) ELSE v

\* The inverse of columnIndexToLetter on a non-empty text of capital letters.
RECURSIVE letterToColumnIndex(_)
letterToColumnIndex(letters) ==
    IF Len(letters) = 1 THEN IndexOf(UpperLetters, letters[1]) - 1
    ELSE (letterToColumnIndex(SubSeq(letters, 1, Len(letters) - 1)) + 1) * 26
         + IndexOf(UpperLetters, letters[Len(letters)]) - 1

\* The number of leading capital letters of an A1 cell reference.
RECURSIVE letterPrefixLen(_)
letterPrefixLen(ref) ==
    IF Len(ref) = 0 \/ ~InSeq(UpperLetters, ref[1]) THEN 0
    ELSE 1 + letterPrefixLen(Tail(ref))

\* An A1 range "<name>!<col><row>:<col><row>" read back into its parts.
parseRange(range) ==
    LET bang == IndexOf(range, "!")
        colon == IndexOf(range, ":")
        first == SubSeq(range, bang + 1, colon - 1)
        last == SubSeq(range, colon + 1, Len(range))
        n1 == letterPrefixLen(first)
        n2 == letterPrefixLen(last)
    IN  [name |-> SubSeq(range, 1, bang - 1),
         startCol |-> letterToColumnIndex(SubSeq(first, 1, n1)),
         startRow |-> DigitsValue(SubSeq(first, n1 + 1, Len(first))),
         endCol |-> letterToColumnIndex(SubSeq(last, 1, n2)),
         endRow |-> DigitsValue(SubSeq(last, n2 + 1, Len(last)))]

rowOrEmpty(sh, i) == IF i <= Len(sh) THEN sh[i] ELSE << >>

\* The cells vals written over row from the 0-based column c0 on.
overlayRow(row, vals, c0) ==
    [j \in 1..Max(Len(row), IF Len(vals) = 0 THEN 0 ELSE c0 + Len(vals)) |->
        IF j > c0 /\ j <= c0 + Len(vals) THEN storeCell(vals[j - c0])
        ELSE IF j <= Len(row) THEN row[j]
        ELSE StrV(<< >>)]

\* Spreadsheets.Values.Update: the rows of values laid over the sheet from
\* the range's first cell on; sheet row r (1-based) is sh[r].
storeWrite(sh, range, vals) ==
    LET r == parseRange(range)
        last == r.startRow + Len(vals) - 1
    IN  [i \in 1..Max(Len(sh), last) |->
            IF i >= r.startRow /\ i <= last
            THEN overlayRow(rowOrEmpty(sh, i), vals[i - r.startRow + 1], r.startCol)
            ELSE rowOrEmpty(sh, i)]

\* Spreadsheets.Values.Append with INSERT_ROWS: the rows after the last row.
storeAppend(sh, vals) ==
    sh \o [i \in 1..Len(vals) |-> [j \in 1..Len(vals[i]) |-> storeCell(vals[i][j])]]

\* One DeleteDimension request: the row at the 0-based index goes.
deleteRowAt(sh, index) ==
    IF index >= 0 /\ index < Len(sh)
    THEN SubSeq(sh, 1, index) \o SubSeq(sh, index + 2, Len(sh))
    ELSE sh

\* The batch of DeleteDimension requests, applied one by one in order.
RECURSIVE storeDeleteRows(_, _)
storeDeleteRows(sh, rowIndices) ==
    IF Len(rowIndices) = 0 THEN sh
    ELSE storeDeleteRows(deleteRowAt(sh, rowIndices[1]), Tail(rowIndices))

\* ------------------------------------------------------------------------
\* Sorting of the indices of DeleteWhere
\* ------------------------------------------------------------------------

\* seq with x inserted before the first element smaller than x.
RECURSIVE insertDescending(_, _)
insertDescending(seq, x) ==
    IF Len(seq) = 0 THEN << x >>
    ELSE IF x >= seq[1] THEN << x >> \o seq
    ELSE << seq[1] >> \o insertDescending(Tail(seq), x)

RECURSIVE sortDescendingRec(_)
sortDescendingRec(seq) ==
    IF Len(seq) = 0 THEN << >>
    ELSE insertDescending(sortDescendingRec(Tail(seq)), seq[1])

\* A bug of DeleteWhere: the indices are passed on as collected, ascending.
sortKeepAscending(seq) == seq

\* sort.Sort(sort.Reverse(sort.IntSlice(indices)))
sortDescending(seq) == sortDescendingRec(seq)

\* A bug of the collecting loop: it stops at the first match.
matchingIndicesFirstOnly(rows, headers, filter, i, offset) ==
    LET hits == { j \in i..Len(rows) : matchesFilter(rows[j], headers, filter) }
    IN  IF hits = { } THEN << >>
        ELSE << (CHOOSE j \in hits : \A h \in hits : j <= h) - 1 + offset >>

\* A bug of the collecting loop: the position is taken 1-based.
matchingIndicesOneBased(rows, headers, filter, i, offset) ==
    LET hits == { j \in i..Len(rows) : matchesFilter(rows[j], headers, filter) }
        nth(n) == CHOOSE j \in hits : Cardinality({ h \in hits : h < j }) = n - 1
    IN  [n \in 1..Cardinality(hits) |-> nth(n) + offset]

\* The 0-based positions, plus offset, of the rows that match the filter.
RECURSIVE matchingIndices(_, _, _, _, _)
matchingIndices(rows, headers, filter, i, offset) ==
    IF i > Len(rows) THEN << >>
    ELSE (IF matchesFilter(rows[i], headers, filter) THEN << (i - 1) + offset >> ELSE << >>)
         \o matchingIndices(rows, headers, filter, i + 1, offset)


\* ------------------------------------------------------------------------
\* Bounds and inputs
\* ------------------------------------------------------------------------

\* The largest number of data rows of an initial sheet.
MaxRows == 3

\* The largest number of Where / Limit / OrderBy calls on one query.
MaxBuilderCalls == 3

\* The largest row index passed to Update and Delete.
MaxRowIndex == 3

TableName == << "U", "s", "e", "r", "s" >>

ColName == << "N", "a", "m", "e" >>
ColAge == << "A", "g", "e" >>
ColZip == << "Z", "i", "p" >>

Header == << StrV(ColName), StrV(ColAge) >>

\* The header with its two columns the other way round, as after another
\* user of the sheet put the Age column first.
HeaderSwapped == << StrV(ColAge), StrV(ColName) >>

\* Data rows: two full rows and one that lacks its Age cell.
RowAl == << StrV(<< "A", "l" >>), FloatV(30, 0) >>
RowBo == << StrV(<< "B", "o" >>), FloatV(100, 0) >>
RowShort == << StrV(<< "a", "l" >>) >>

DataRows == { RowAl, RowBo, RowShort }

RECURSIVE SeqsUpTo(_, _)
SeqsUpTo(S, n) ==
    IF n = 0 THEN { << >> }
    ELSE LET shorter == SeqsUpTo(S, n - 1)
         IN  shorter \cup { Append(t, x) : t \in shorter, x \in S }

\* The sheets at the start: no row at all, or the header and up to MaxRows
\* data rows.
Sheets == { << >> } \cup { << Header >> \o rows : rows \in SeqsUpTo(DataRows, MaxRows) }

\* The filters passed to Where: one on a number column and one on a text
\* column, neither of which implies the other on the data rows.
Filters ==
    { Filter(ColAge, OpGe, IntV(28)),
      Filter(ColName, OpContains, StrV(<< "A", "L" >>)) }

\* The filters passed to UpdateWhere and DeleteWhere: those and two more,
\* one of them on a column the header lacks.
TableFilters ==
    Filters \cup
    { Filter(ColName, OpNe, StrV(<< "B", "o" >>)),
      Filter(ColZip, OpEq, StrV(<< "1" >>)) }

Limits == { -1, 1 }

OrderBys == { [column |-> ColAge, descending |-> TRUE] }

\* type User struct { Name string `quire:"Name"`; Password string `quire:"-"`; Age int }
User(name, password, age) ==
    StructV(<< Field(ColName, ColName, StrV(name)),
               Field(<< "P", "a", "s", "s", "w", "o", "r", "d" >>, TagIgnore, StrV(password)),
               Field(ColAge, << >>, IntV(age)) >>)

UserZero == User(<< >>, << >>, 0)

UserCy == User(<< "C", "y" >>, << "p", "w" >>, 41)

\* The records passed to Insert, Update and UpdateWhere: a struct, a pointer
\* to a struct, and a value that is no struct.
Records == { UserCy, PtrV(UserCy), StrV(<< "x" >>) }

\* The destinations passed to Get: a pointer to a slice of User that holds
\* one element already, and a value that is no pointer to a slice.
Dests ==
    { PtrSliceV(UserZero, << UserCy >>),
      UserZero }

RowIndices == (-1)..MaxRowIndex

\* A second sheet of the spreadsheet, which no operation of the model
\* changes.
OrdersName == << "O", "r", "d", "e", "r", "s" >>

OrdersSheet ==
    << << StrV(ColName) >>, << StrV(<< "E", "d" >>) >>, << StrV(<< "F", "l", "o" >>) >> >>

\* Spreadsheets.Values.Get on the bare name of a sheet: all its rows; sh
\* is the sheet of name TableName.
storeRead(sh, range) ==
    IF range = TableName THEN sh
    ELSE IF range = OrdersName THEN OrdersSheet
    ELSE << >>

ReadError == << "read error" >>
WriteError == << "write error" >>
DeleteError == << "delete error" >>
AppendError == << "append error" >>

\* ------------------------------------------------------------------------
\* State
\* ------------------------------------------------------------------------

VARIABLES
    sheet,      \* the rows of the sheet held by the GridStore
    calls,      \* the GridStore calls issued so far, in order
    pc,         \* "idle", "query", "uw_write", "dw_delete", "done"
    op,         \* the operation called and its arguments
    q,          \* the Query object: filters, limit, orderBy, descending
    hist,       \* the builder calls made on q, in order
    ret,        \* the pointer returned by the last builder call
    dest,       \* the destination of Get after the call
    err,        \* the error returned by the operation
    data,       \* the rows the operation's Read returned
    indices,    \* UpdateWhere / DeleteWhere: the collected indices
    values,     \* UpdateWhere: the encoded record
    idx,        \* UpdateWhere: the position in indices of the next Write
    env,        \* what went on around the operation: the operations that
                \* returned before it and the changes of other clients
    args,       \* the function applied on its own and its arguments
    result      \* what that function returned

tableVars == << sheet, calls, pc, op, q, hist, ret, dest, err, data, indices, values, idx, env >>

fnVars == << args, result >>

vars == << sheet, calls, pc, op, q, hist, ret, dest, err, data, indices, values, idx, env, args, result >>

\* The address of the Query object that Table.Query allocates.
QueryAddr == 1

\* &Query{table: t} for the Table of name TableName.
NoQuery ==
    [table |-> TableName, filters |-> << >>, limit |-> 0, orderBy |-> << >>, descending |-> FALSE]

NoOp == [name |-> "none"]

NoDest == [k |-> "none"]

NoArgs == [fn |-> "none"]

NoResult == [set |-> FALSE]

Returned(v) == [set |-> TRUE, val |-> v]

Call(fn, range, vals, inds, ok) ==
    [fn |-> fn, range |-> range, values |-> vals, indices |-> inds, ok |-> ok]

\* The last GridStore call returned no error.
LastCallOk == calls # << >> /\ calls[Len(calls)].ok

InitTable ==
    /\ calls = << >>
    /\ pc = "idle"
    /\ op = NoOp
    /\ q = NoQuery
    /\ hist = << >>
    /\ ret = 0
    /\ dest = NoDest
    /\ err = ErrNil
    /\ data = << >>
    /\ indices = << >>
    /\ values = << >>
    /\ idx = 0
    /\ env = << >>

Init ==
    /\ sheet \in Sheets
    /\ InitTable
    /\ args = NoArgs
    /\ result = NoResult


\* ------------------------------------------------------------------------
\* Query builder and Get
\* ------------------------------------------------------------------------

\* A bug of Where: the new filter replaces the ones set before.
qWhereReplacing(qry, column, operator, value) ==
    [qry EXCEPT !.filters = << Filter(column, operator, value) >>]

\* The Query after q.Where(column, operator, value).
qWhere(qry, column, operator, value) ==
    [qry EXCEPT !.filters = Append(@, Filter(column, operator, value))]

\* The Query after q.Limit(n).
qLimit(qry, n) == [qry EXCEPT !.limit = n]

\* The Query after q.OrderBy(column, descending).
qOrderBy(qry, column, descending) ==
    [qry EXCEPT !.orderBy = column, !.descending = descending]

\* A bug of Get: the limit is applied to the rows before the filters.
queryGetLimitFirst(qry, rows, d) ==
    IF Len(rows) < 2 THEN [dest |-> d, err |-> ErrNil]
    ELSE LET headers == rows[1]
             limited == applyLimit(qry, Tail(rows))
             filtered == applyFilters(qry, limited, headers)
         IN  scanIntoSlice(filtered, headers, d)

\* A bug of Get: a sheet with a header and no data row is not let through.
queryGetNoShortGuard(qry, rows, d) ==
    IF Len(rows) < 1 THEN [dest |-> d, err |-> ErrNil]
    ELSE LET headers == rows[1]
             filtered == applyFilters(qry, Tail(rows), headers)
             sorted == IF qry.orderBy # << >> THEN applySort(qry, filtered, headers) ELSE filtered
             limited == applyLimit(qry, sorted)
         IN  scanIntoSlice(limited, headers, d)

\* A bug of Get: the shape of the destination is looked at before the rows
\* are, so that a sheet with no data row no longer lets it through.
queryGetShapeFirst(qry, rows, d) ==
    IF d.k # "ptrslice" THEN [dest |-> d, err |-> Errorf("dest must be a pointer to a slice")]
    ELSE IF Len(rows) < 2 THEN [dest |-> d, err |-> ErrNil]
    ELSE LET headers == rows[1]
             filtered == applyFilters(qry, Tail(rows), headers)
             sorted == IF qry.orderBy # << >> THEN applySort(qry, filtered, headers) ELSE filtered
             limited == applyLimit(qry, sorted)
         IN  scanIntoSlice(limited, headers, d)

\* Get after its Read returned rows: the destination and the error.
queryGet(qry, rows, d) ==
    IF Len(rows) < 2 THEN [dest |-> d, err |-> ErrNil]
    ELSE LET headers == rows[1]
             filtered == applyFilters(qry, Tail(rows), headers)
             sorted == IF qry.orderBy # << >> THEN applySort(qry, filtered, headers) ELSE filtered
             limited == applyLimit(qry, sorted)
         IN  scanIntoSlice(limited, headers, d)

\* Table.Query()
Query ==
    /\ pc = "idle"
    /\ pc' = "query"
    /\ q' = NoQuery
    /\ UNCHANGED << sheet, calls, op, hist, ret, dest, err, data, indices, values, idx, env, args, result >>

Where(f) ==
    /\ pc = "query"
    /\ Len(hist) < MaxBuilderCalls
    /\ q' = qWhere(q, f.Column, f.Operator, f.Value)
    /\ hist' = Append(hist, [fn |-> "Where", filter |-> f])
    /\ ret' = QueryAddr
    /\ UNCHANGED << sheet, calls, pc, op, dest, err, data, indices, values, idx, env, args, result >>

Limit(n) ==
    /\ pc = "query"
    /\ Len(hist) < MaxBuilderCalls
    /\ q' = qLimit(q, n)
    /\ hist' = Append(hist, [fn |-> "Limit", n |-> n])
    /\ ret' = QueryAddr
    /\ UNCHANGED << sheet, calls, pc, op, dest, err, data, indices, values, idx, env, args, result >>

OrderBy(o) ==
    /\ pc = "query"
    /\ Len(hist) < MaxBuilderCalls
    /\ q' = qOrderBy(q, o.column, o.descending)
    /\ hist' = Append(hist, [fn |-> "OrderBy", order |-> o])
    /\ ret' = QueryAddr
    /\ UNCHANGED << sheet, calls, pc, op, dest, err, data, indices, values, idx, env, args, result >>

\* A bug of Get: the error of the Read is dropped and Get reports success.
GetIgnoresReadError(d, fail) ==
    /\ pc = "query"
    /\ pc' = "done"
    /\ op' = [name |-> "Get", dest |-> d]
    /\ calls' = Append(calls, Call("Read", q.table, << >>, << >>, ~fail))
    /\ IF fail
       THEN /\ err' = ErrNil
            /\ dest' = d
            /\ UNCHANGED data
       ELSE LET rows == storeRead(sheet, q.table)
                r == queryGet(q, rows, d)
            IN  /\ data' = rows
                /\ dest' = r.dest
                /\ err' = r.err
    /\ UNCHANGED << sheet, q, hist, ret, indices, values, idx, env, args, result >>

\* A change of Get: the rows of an earlier Read are kept and used again
\* instead of a new Read.
GetFromCache(d, fail) ==
    /\ pc = "query"
    /\ pc' = "done"
    /\ op' = [name |-> "Get", dest |-> d]
    /\ IF data # << >>
       THEN LET r == queryGet(q, data, d)
            IN  /\ dest' = r.dest
                /\ err' = r.err
                /\ UNCHANGED << calls, data >>
       ELSE /\ calls' = Append(calls, Call("Read", q.table, << >>, << >>, ~fail))
            /\ IF fail
               THEN /\ err' = Wrap("failed to read data", ReadError)
                    /\ dest' = d
                    /\ UNCHANGED data
               ELSE LET rows == storeRead(sheet, q.table)
                        r == queryGet(q, rows, d)
                    IN  /\ data' = rows
                        /\ dest' = r.dest
                        /\ err' = r.err
    /\ UNCHANGED << sheet, q, hist, ret, indices, values, idx, env, args, result >>

\* Query.Get(ctx, d); fail: the Read returns an error.
Get(d, fail) ==
    /\ pc = "query"
    /\ pc' = "done"
    /\ op' = [name |-> "Get", dest |-> d]
    /\ calls' = Append(calls, Call("Read", q.table, << >>, << >>, ~fail))
    /\ IF fail
       THEN /\ err' = Wrap("failed to read data", ReadError)
            /\ dest' = d
            /\ UNCHANGED data
       ELSE LET rows == storeRead(sheet, q.table)
                r == queryGet(q, rows, d)
            IN  /\ data' = rows
                /\ dest' = r.dest
                /\ err' = r.err
    /\ UNCHANGED << sheet, q, hist, ret, indices, values, idx, env, args, result >>

\* ------------------------------------------------------------------------
\* Table facade
\* ------------------------------------------------------------------------

\* A bug of Update: the header offset is forgotten.
updateRangeNoHeader(name, rowIndex, vals) ==
    rangeA1(name, rowIndex + 1, columnIndexToLetter(Len(vals) - 1))

\* The range Update and UpdateWhere write the encoded record vals to.
updateRange(name, rowIndex, vals) ==
    rangeA1(name, rowIndex + 2, columnIndexToLetter(Len(vals) - 1))

\* The indices Delete passes to DeleteRows.
deleteIndices(rowIndex) == << rowIndex + 1 >>

SliceV(items) == [k |-> "slice", items |-> items]

\* A bug of structSliceToValues' loop: each row is put in front of the
\* result, so that the rows come out in the reverse order of the records.
structSliceRowsReversed(items) ==
    LET bad == { i \in 1..Len(items) : structToValues(items[i]).err # ErrNil }
    IN  IF bad # { }
        THEN [values |-> << >>,
              err |-> structToValues(items[CHOOSE i \in bad : \A j \in bad : i <= j]).err]
        ELSE [values |-> [i \in 1..Len(items) |-> structToValues(items[Len(items) + 1 - i]).values],
              err |-> ErrNil]

\* The loop of structSliceToValues over the elements.
RECURSIVE structSliceRows(_)
structSliceRows(items) ==
    IF Len(items) = 0 THEN [values |-> << >>, err |-> ErrNil]
    ELSE LET row == structToValues(items[1])
             rest == structSliceRows(Tail(items))
         IN  IF row.err # ErrNil THEN [values |-> << >>, err |-> row.err]
             ELSE IF rest.err # ErrNil THEN rest
             ELSE [values |-> << row.values >> \o rest.values, err |-> ErrNil]

\* A bug of structSliceToValues: the kind of records is not looked at, and a
\* value that is no slice counts as a slice without elements.
structSliceToValuesAnyKind(records) ==
    IF records.k # "slice"
    THEN [values |-> << >>, err |-> ErrNil]
    ELSE structSliceRows(records.items)

structSliceToValues(records) ==
    IF records.k # "slice"
    THEN [values |-> << >>, err |-> Errorf("records must be a slice")]
    ELSE structSliceRows(records.items)

\* The values passed to Insert: slices of structs, a slice with an element
\* that is no struct, and a value that is no slice.
InsertArgs ==
    { SliceV(<< >>), SliceV(<< UserCy >>), SliceV(<< UserCy, User(<< "D", "i" >>, << >>, 7) >>),
      SliceV(<< UserCy, StrV(<< "x" >>) >>), UserCy }

\* Table.Insert(ctx, records); fail: the Append returns an error.
Insert(records, fail) ==
    /\ pc = "idle"
    /\ pc' = "done"
    /\ op' = [name |-> "Insert", records |-> records]
    /\ LET enc == structSliceToValues(records)
       IN  IF enc.err # ErrNil
           THEN /\ err' = Wrap("failed to convert records", enc.err)
                /\ UNCHANGED << sheet, calls >>
           ELSE /\ calls' = Append(calls,
                        Call("Append", TableName \o << "!", "A", "1" >>, enc.values, << >>, ~fail))
                /\ err' = IF fail THEN AppendError ELSE ErrNil
                /\ sheet' = IF fail THEN sheet ELSE storeAppend(sheet, enc.values)
    /\ UNCHANGED << q, hist, ret, dest, data, indices, values, idx, env, args, result >>

\* A change of Update: the sheet is read first and a row index past its
\* last row is refused.
UpdateChecksLastRow(rowIndex, record, fail) ==
    /\ pc = "idle"
    /\ pc' = "done"
    /\ op' = [name |-> "Update", rowIndex |-> rowIndex, record |-> record]
    /\ IF rowIndex < 0
       THEN /\ err' = Errorf("row index cannot be negative")
            /\ UNCHANGED << sheet, calls >>
       ELSE LET enc == structToValues(record)
                range == updateRange(TableName, rowIndex, enc.values)
                read == Call("Read", TableName, << >>, << >>, TRUE)
            IN  IF enc.err # ErrNil
                THEN /\ err' = Wrap("failed to convert record", enc.err)
                     /\ UNCHANGED << sheet, calls >>
                ELSE IF rowIndex + 2 > Len(sheet)
                THEN /\ calls' = Append(calls, read)
                     /\ err' = Errorf("row index out of range")
                     /\ UNCHANGED sheet
                ELSE /\ calls' = calls \o << read, Call("Write", range, << enc.values >>, << >>, ~fail) >>
                     /\ err' = IF fail THEN WriteError ELSE ErrNil
                     /\ sheet' = IF fail THEN sheet ELSE storeWrite(sheet, range, << enc.values >>)
    /\ UNCHANGED << q, hist, ret, dest, data, indices, values, idx, env, args, result >>

\* Table.Update(ctx, rowIndex, record); fail: the Write returns an error.
Update(rowIndex, record, fail) ==
    /\ pc = "idle"
    /\ pc' = "done"
    /\ op' = [name |-> "Update", rowIndex |-> rowIndex, record |-> record]
    /\ IF rowIndex < 0
       THEN /\ err' = Errorf("row index cannot be negative")
            /\ UNCHANGED << sheet, calls >>
       ELSE LET enc == structToValues(record)
                range == updateRange(TableName, rowIndex, enc.values)
            IN  IF enc.err # ErrNil
                THEN /\ err' = Wrap("failed to convert record", enc.err)
                     /\ UNCHANGED << sheet, calls >>
                ELSE /\ calls' = Append(calls, Call("Write", range, << enc.values >>, << >>, ~fail))
                     /\ err' = IF fail THEN WriteError ELSE ErrNil
                     /\ sheet' = IF fail THEN sheet ELSE storeWrite(sheet, range, << enc.values >>)
    /\ UNCHANGED << q, hist, ret, dest, data, indices, values, idx, env, args, result >>

\* Table.Delete(ctx, rowIndex); fail: the DeleteRows returns an error.
Delete(rowIndex, fail) ==
    /\ pc = "idle"
    /\ pc' = "done"
    /\ op' = [name |-> "Delete", rowIndex |-> rowIndex]
    /\ IF rowIndex < 0
       THEN /\ err' = Errorf("row index cannot be negative")
            /\ UNCHANGED << sheet, calls >>
       ELSE /\ calls' = Append(calls,
                    Call("DeleteRows", TableName, << >>, deleteIndices(rowIndex), ~fail))
            /\ err' = IF fail THEN DeleteError ELSE ErrNil
            /\ sheet' = IF fail THEN sheet ELSE storeDeleteRows(sheet, deleteIndices(rowIndex))
    /\ UNCHANGED << q, hist, ret, dest, data, indices, values, idx, env, args, result >>


\* Table.UpdateWhere up to its first Write: the Read, the filter and the
\* encoding; fail: the Read returns an error.
UpdateWhereRead(f, record, fail) ==
    /\ pc = "idle"
    /\ op' = [name |-> "UpdateWhere", filter |-> f, record |-> record]
    /\ calls' = Append(calls, Call("Read", TableName, << >>, << >>, ~fail))
    /\ IF fail
       THEN /\ err' = Wrap("failed to read data", ReadError)
            /\ pc' = "done"
            /\ UNCHANGED << data, indices, values, idx >>
       ELSE /\ data' = sheet
            /\ IF Len(sheet) < 2
               THEN /\ err' = ErrNil
                    /\ pc' = "done"
                    /\ UNCHANGED << indices, values, idx >>
               ELSE LET found == matchingIndices(Tail(sheet), sheet[1], f, 1, 0)
                        enc == structToValues(record)
                    IN  /\ indices' = found
                        /\ IF Len(found) = 0
                           THEN /\ err' = ErrNil
                                /\ pc' = "done"
                                /\ UNCHANGED << values, idx >>
                           ELSE IF enc.err # ErrNil
                           THEN /\ err' = Wrap("failed to convert record", enc.err)
                                /\ pc' = "done"
                                /\ UNCHANGED << values, idx >>
                           ELSE /\ err' = ErrNil
                                /\ pc' = "uw_write"
                                /\ values' = enc.values
                                /\ idx' = 1
    /\ UNCHANGED << sheet, q, hist, ret, dest, env, args, result >>

\* A bug of UpdateWhere's loop: a failed Write is skipped and the loop goes
\* on with the next index.
UpdateWhereWriteGoesOn(fail) ==
    /\ pc = "uw_write"
    /\ LET range == updateRange(TableName, indices[idx], values)
       IN  /\ calls' = Append(calls, Call("Write", range, << values >>, << >>, ~fail))
           /\ sheet' = IF fail THEN sheet ELSE storeWrite(sheet, range, << values >>)
           /\ idx' = idx + 1
           /\ pc' = IF idx = Len(indices) THEN "done" ELSE "uw_write"
           /\ err' = IF fail THEN Wrap("failed to update row", WriteError) ELSE err
    /\ UNCHANGED << op, q, hist, ret, dest, data, indices, values, env, args, result >>

\* One turn of UpdateWhere's loop over the indices; fail: the Write returns
\* an error.
UpdateWhereWrite(fail) ==
    /\ pc = "uw_write"
    /\ LET range == updateRange(TableName, indices[idx], values)
       IN  /\ calls' = Append(calls, Call("Write", range, << values >>, << >>, ~fail))
           /\ IF fail
              THEN /\ err' = Wrap("failed to update row", WriteError)
                   /\ pc' = "done"
                   /\ UNCHANGED << sheet, idx >>
              ELSE /\ sheet' = storeWrite(sheet, range, << values >>)
                   /\ idx' = idx + 1
                   /\ pc' = IF idx = Len(indices) THEN "done" ELSE "uw_write"
                   /\ err' = ErrNil
    /\ UNCHANGED << op, q, hist, ret, dest, data, indices, values, env, args, result >>

\* Table.DeleteWhere up to its DeleteRows: the Read, the filter and the
\* sort; fail: the Read returns an error.
DeleteWhereRead(f, fail) ==
    /\ pc = "idle"
    /\ op' = [name |-> "DeleteWhere", filter |-> f]
    /\ calls' = Append(calls, Call("Read", TableName, << >>, << >>, ~fail))
    /\ IF fail
       THEN /\ err' = Wrap("failed to read data", ReadError)
            /\ pc' = "done"
            /\ UNCHANGED << data, indices >>
       ELSE /\ data' = sheet
            /\ IF Len(sheet) < 2
               THEN /\ err' = ErrNil
                    /\ pc' = "done"
                    /\ UNCHANGED indices
               ELSE LET found == matchingIndices(Tail(sheet), sheet[1], f, 1, 1)
                    IN  /\ err' = ErrNil
                        /\ indices' = sortDescending(found)
                        /\ pc' = IF Len(found) = 0 THEN "done" ELSE "dw_delete"
    /\ UNCHANGED << sheet, q, hist, ret, dest, values, idx, env, args, result >>

\* A change of DeleteWhere: the sheet is looked at again before the call and
\* the call is given up when the sheet is no longer the one that was read.
DeleteWhereDeleteDetectsChange(fail) ==
    /\ pc = "dw_delete"
    /\ pc' = "done"
    /\ IF sheet # data
       THEN /\ err' = Errorf("sheet changed")
            /\ UNCHANGED << sheet, calls >>
       ELSE /\ calls' = Append(calls, Call("DeleteRows", TableName, << >>, indices, ~fail))
            /\ err' = IF fail THEN DeleteError ELSE ErrNil
            /\ sheet' = IF fail THEN sheet ELSE storeDeleteRows(sheet, indices)
    /\ UNCHANGED << op, q, hist, ret, dest, data, indices, values, idx, env, args, result >>

\* The DeleteRows call of DeleteWhere; fail: it returns an error.
DeleteWhereDelete(fail) ==
    /\ pc = "dw_delete"
    /\ pc' = "done"
    /\ calls' = Append(calls, Call("DeleteRows", TableName, << >>, indices, ~fail))
    /\ err' = IF fail THEN DeleteError ELSE ErrNil
    /\ sheet' = IF fail THEN sheet ELSE storeDeleteRows(sheet, indices)
    /\ UNCHANGED << op, q, hist, ret, dest, data, indices, values, idx, env, args, result >>

Next ==
    \/ Query
    \/ \E f \in Filters : Where(f)
    \/ \E n \in Limits : Limit(n)
    \/ \E o \in OrderBys : OrderBy(o)
    \/ \E d \in Dests, fail \in BOOLEAN : Get(d, fail)
    \/ \E records \in InsertArgs, fail \in BOOLEAN : Insert(records, fail)
    \/ \E i \in RowIndices, record \in Records, fail \in BOOLEAN : Update(i, record, fail)
    \/ \E i \in RowIndices, fail \in BOOLEAN : Delete(i, fail)
    \/ \E f \in TableFilters, record \in Records, fail \in BOOLEAN : UpdateWhereRead(f, record, fail)
    \/ \E fail \in BOOLEAN : UpdateWhereWrite(fail)
    \/ \E f \in TableFilters, fail \in BOOLEAN : DeleteWhereRead(f, fail)
    \/ \E fail \in BOOLEAN : DeleteWhereDelete(fail)

Spec == Init /\ [][Next]_vars


\* ------------------------------------------------------------------------
\* matchesOperator applied on its own
\* ------------------------------------------------------------------------

OpCells ==
    { StrV(<< "A", "l" >>), StrV(<< "a", "L", "a" >>), StrV(<< "l" >>), StrV(<< >>),
      StrV(<< "3", "0" >>), FloatV(30, 0), FloatV(5, 1), BoolV(TRUE), StrV(<< "T", "r", "u", "e" >>) }

OpValues ==
    { StrV(<< "a", "l" >>), StrV(<< "L", "A" >>), StrV(<< >>), StrV(<< "3", "0" >>),
      IntV(30), StrV(<< "0", ".", "5" >>), BoolV(TRUE), StrV(<< "t", "r", "u", "e" >>) }

KnownOperators == { OpEq, OpEqEq, OpNe, OpGt, OpGe, OpLt, OpLe, OpContains, OpLike }

\* Operators outside the table: other spellings, other letter case, none.
OtherOperators ==
    { << "<", ">" >>, << "C", "o", "n", "t", "a", "i", "n", "s" >>, << "L", "I", "K", "E" >>,
      << "=", "=", "=" >>, << >> }

InitOperator ==
    /\ sheet = << >>
    /\ InitTable
    /\ args \in { [fn |-> "matchesOperator", cell |-> c, operator |-> o, value |-> v] :
                    c \in OpCells, o \in KnownOperators \cup OtherOperators, v \in OpValues }
    /\ result = NoResult

MatchesOperator ==
    /\ args.fn = "matchesOperator"
    /\ ~result.set
    /\ result' = Returned(matchesOperator(args.cell, args.operator, args.value))
    /\ UNCHANGED << tableVars, args >>

NextOperator == MatchesOperator

SpecOperator == InitOperator /\ [][NextOperator]_vars


\* ------------------------------------------------------------------------
\* matchesFilter and Query.matchesFilters applied on their own
\* ------------------------------------------------------------------------

\* The largest number of filters of one query.
MaxFilters == 2

\* Header rows: the usual one, one that names a column twice, one that
\* lacks the Name column, one whose first cell is a number, and none.
FilterHeaders ==
    { Header,
      << StrV(ColName), StrV(ColAge), StrV(ColName) >>,
      << StrV(ColAge) >>,
      << FloatV(30, 0), StrV(ColName) >>,
      << >> }

\* Data rows of one, two and three cells, and an empty one.
FilterRows ==
    { RowAl, RowShort, << >>,
      << StrV(<< "A", "l" >>), FloatV(30, 0), StrV(<< "B", "o" >>) >> }

FilterColumns == { ColName, ColAge, ColZip, << "3", "0" >> }

FilterValues == { StrV(<< "B", "o" >>), IntV(28) }

\* The filters given to matchesFilter: every operator of the table and one
\* outside it, on columns the header has, has twice or lacks.
SingleFilters ==
    { Filter(c, o, v) : c \in FilterColumns,
                        o \in KnownOperators \cup { << "<", ">" >> },
                        v \in FilterValues }

\* The filters a query accumulates.
QueryFilters ==
    { Filter(ColName, OpNe, StrV(<< "B", "o" >>)),
      Filter(ColName, OpContains, StrV(<< "A", "L" >>)),
      Filter(ColAge, OpGe, IntV(28)),
      Filter(ColAge, OpNe, IntV(28)),
      Filter(ColZip, OpNe, StrV(<< "B", "o" >>)),
      Filter(ColZip, OpEq, StrV(<< "B", "o" >>)) }

InitFilter ==
    /\ sheet = << >>
    /\ InitTable
    /\ args \in
         { [fn |-> "matchesFilter", row |-> r, headers |-> h, filter |-> f] :
              r \in FilterRows, h \in FilterHeaders, f \in SingleFilters }
         \cup
         { [fn |-> "matchesFilters", row |-> r, headers |-> h, filters |-> fs] :
              r \in FilterRows, h \in FilterHeaders, fs \in SeqsUpTo(QueryFilters, MaxFilters) }
    /\ result = NoResult

MatchesFilter ==
    /\ args.fn = "matchesFilter"
    /\ ~result.set
    /\ result' = Returned(matchesFilter(args.row, args.headers, args.filter))
    /\ UNCHANGED << tableVars, args >>

MatchesFilters ==
    /\ args.fn = "matchesFilters"
    /\ ~result.set
    /\ result' = Returned(matchesFilters(args.filters, args.row, args.headers))
    /\ UNCHANGED << tableVars, args >>

NextFilter == MatchesFilter \/ MatchesFilters

SpecFilter == InitFilter /\ [][NextFilter]_vars


\* ------------------------------------------------------------------------
\* The record codec applied on its own
\* ------------------------------------------------------------------------

ColNick == << "N", "i", "c", "k" >>
ColActive == << "A", "c", "t", "i", "v", "e" >>
ColCount == << "C", "o", "u", "n", "t" >>
ColSmall == << "S", "m", "a", "l", "l" >>
ColByte == << "B", "y", "t", "e" >>
ColScore == << "S", "c", "o", "r", "e" >>

\* type Member struct { Nick string `quire:"Name"`; Age int; Active bool;
\*                      Count uint; Small int8 }
Member(nick, age, active, count, small) ==
    StructV(<< Field(ColNick, ColName, StrV(nick)),
               Field(ColAge, << >>, IntV(age)),
               Field(ColActive, << >>, BoolV(active)),
               Field(ColCount, << >>, IntOfKind("uint", count)),
               Field(ColSmall, << >>, IntOfKind("int8", small)) >>)

Members ==
    { Member(nick, age, active, count, small) :
        nick \in { << >>, << "C", "y" >>, << "3", "0" >> },
        age \in { -7, 0, 41 },
        active \in BOOLEAN,
        count \in { 0, 9 },
        small \in { -128, 127 } }

\* type Pair struct { First string `quire:"Name"`; Last string `quire:"Name"` }
Pair(first, last) ==
    StructV(<< Field(<< "F", "i", "r", "s", "t" >>, ColName, StrV(first)),
               Field(<< "L", "a", "s", "t" >>, ColName, StrV(last)) >>)

Pairs ==
    { Pair(first, last) : first, last \in { << >>, << "C", "y" >>, << "D", "i" >> } }

\* type Secret struct { Token string `quire:"-"`; Name string; Pin int `quire:"-"` }
Secret(token, name, pin) ==
    StructV(<< Field(<< "T", "o", "k", "e", "n" >>, TagIgnore, StrV(token)),
               Field(ColName, << >>, StrV(name)),
               Field(<< "P", "i", "n" >>, TagIgnore, IntV(pin)) >>)

\* type Hidden struct { Token string `quire:"-"` }
Hidden(token) == StructV(<< Field(<< "T", "o", "k", "e", "n" >>, TagIgnore, StrV(token)) >>)

\* type Gauge struct { Byte uint8; Score float64; Small int8 }
Gauge(byte, score, small) ==
    StructV(<< Field(ColByte, << >>, IntOfKind("uint8", byte)),
               Field(ColScore, << >>, score),
               Field(ColSmall, << >>, IntOfKind("int8", small)) >>)

\* The column a field is bound to: its tag, or its name when it has none.
columnName(f) == IF f.tag # << >> THEN f.tag ELSE f.name

\* The header that lists the columns of a struct in declaration order.
headerOf(record) == [i \in 1..Len(record.fields) |-> StrV(columnName(record.fields[i]))]

\* The zero value of the type of a value.
zeroOf(v) ==
    CASE v.k = "string" -> StrV(<< >>)
      [] v.k = "int" -> IntV(0)
      [] v.k \in { "uint", "int8", "uint8" } -> IntOfKind(v.k, 0)
      [] v.k = "bool" -> BoolV(FALSE)
      [] v.k = "float64" -> FloatV(0, 0)

\* reflect.New(elemType).Elem() for the type of a struct.
zeroStruct(record) ==
    StructV([i \in 1..Len(record.fields) |-> [record.fields[i] EXCEPT !.val = zeroOf(@)]])

\* The values given to structToValues: structs with no, one, two and only
\* ignored fields, one without fields, pointers, and values that are no
\* struct.
CodecRecords ==
    Members \cup Pairs \cup
    { UserCy, PtrV(UserCy),
      Secret(<< "t", "k" >>, << "C", "y" >>, 9),
      PtrV(Secret(<< "t", "k" >>, << "C", "y" >>, 9)),
      Hidden(<< "t", "k" >>),
      StructV(<< >>),
      StrV(<< "x" >>), IntV(3), BoolV(TRUE), PtrV(StrV(<< "x" >>)),
      SliceV(<< UserCy >>) }

UpperChar(c) == IF InSeq(LowerLetters, c) THEN UpperLetters[IndexOf(LowerLetters, c)] ELSE c

\* Every spelling of a lower-case text in upper- and lower-case letters.
CaseVariants(text) ==
    { [i \in 1..Len(text) |-> IF i \in U THEN UpperChar(text[i]) ELSE text[i]] :
        U \in SUBSET (1..Len(text)) }

TextTrue == << "t", "r", "u", "e" >>
TextFalse == << "f", "a", "l", "s", "e" >>

\* The cells given to setField: texts, numbers and booleans.
CodecCells ==
    { StrV(t) : t \in CaseVariants(TextTrue) \cup CaseVariants(TextFalse) }
    \cup
    { StrV(<< "1" >>), StrV(<< "0" >>), StrV(<< "t" >>), StrV(<< "F" >>), StrV(<< >>),
      StrV(<< "a", "b", "c" >>), StrV(<< "4", "1" >>), StrV(<< "-", "7" >>),
      StrV(<< "+", "5" >>), StrV(<< "4", ".", "5" >>), StrV(<< "3", "0", "0" >>),
      StrV(<< "-", "1", "2", "9" >>), StrV(<< "2", "5", "5" >>), StrV(<< "1", "2", "7" >>),
      StrV(<< "4", "1", "x" >>),
      FloatV(30, 0), FloatV(45, 1), FloatV(-7, 0), FloatV(300, 0),
      BoolV(TRUE), BoolV(FALSE) }

\* The fields given to setField, each with a value other than zero.
CodecFields ==
    { StrV(<< "o", "l", "d" >>), IntV(5), IntOfKind("uint", 5), IntOfKind("int8", 5),
      IntOfKind("uint8", 5), FloatV(25, 1), BoolV(TRUE), BoolV(FALSE) }

\* The structs scanRow decodes into: they hold values already.
ScanDests ==
    { Member(<< "o", "l", "d" >>, 5, TRUE, 5, 5),
      Gauge(5, FloatV(25, 1), 5),
      UserCy }

ScanHeaders ==
    { headerOf(Member(<< >>, 0, FALSE, 0, 0)),
      << StrV(ColName), StrV(ColSmall), StrV(ColAge) >>,
      << StrV(ColName), StrV(ColAge), StrV(ColName) >>,
      << StrV(ColScore), StrV(ColByte), StrV(ColSmall), StrV(ColName) >>,
      << StrV(ColNick), StrV(<< "a", "g", "e" >>) >>,
      << >> }

ScanRows ==
    { << StrV(<< "D", "i" >>), FloatV(30, 0), StrV(TextFalse), FloatV(9, 0), FloatV(100, 0) >>,
      << StrV(<< "D", "i" >>), StrV(<< "a", "b", "c" >>), StrV(<< "n", "o" >>),
         FloatV(-1, 0), StrV(<< "x" >>) >>,
      << StrV(<< "4", ".", "5" >>), FloatV(300, 0), FloatV(-129, 0), StrV(<< "D", "i" >>) >>,
      << StrV(<< "D", "i" >>) >>,
      << >> }

\* The largest number of rows given to scanIntoSlice.
MaxScanRows == 2

\* A nil pointer, the zero value of a pointer type.
NilPtr == [k |-> "ptr", elem |-> [k |-> "invalid"]]

\* The destinations given to scanIntoSlice: pointers to a []User that is
\* empty and one that holds an element, to a []string and to a []*User,
\* and values that are no pointer to a slice: a struct, a slice, a pointer
\* to a struct and a number.
SliceDests ==
    { PtrSliceV(UserZero, << >>),
      PtrSliceV(UserZero, << UserCy >>),
      PtrSliceV(StrV(<< >>), << StrV(<< "x" >>) >>),
      PtrSliceV(NilPtr, << PtrV(UserCy) >>),
      UserZero, SliceV(<< UserCy >>), PtrV(UserZero), IntV(0) }

InitCodec ==
    /\ sheet = << >>
    /\ InitTable
    /\ args \in
         { [fn |-> "structToValues", record |-> r] : r \in CodecRecords }
         \cup
         { [fn |-> "scanIntoSlice", rows |-> rs, headers |-> h, dest |-> d] :
              rs \in SeqsUpTo(DataRows, MaxScanRows), h \in { Header, HeaderSwapped }, d \in SliceDests }
         \cup
         { [fn |-> "encodeDecode", record |-> r, headers |-> headerOf(r), dest |-> zeroStruct(r)] :
              r \in Members \cup Pairs }
         \cup
         { [fn |-> "setField", field |-> f, value |-> v] : f \in CodecFields, v \in CodecCells }
         \cup
         { [fn |-> "scanRow", row |-> r, headers |-> h, dest |-> d] :
              r \in ScanRows, h \in ScanHeaders, d \in ScanDests }
    /\ result = NoResult

StructToValues ==
    /\ args.fn = "structToValues"
    /\ ~result.set
    /\ result' = Returned(structToValues(args.record))
    /\ UNCHANGED << tableVars, args >>

\* structToValues, and scanRow on the row it returned.
EncodeDecode ==
    /\ args.fn = "encodeDecode"
    /\ ~result.set
    /\ result' = Returned(scanRow(structToValues(args.record).values, args.headers, args.dest))
    /\ UNCHANGED << tableVars, args >>

SetField ==
    /\ args.fn = "setField"
    /\ ~result.set
    /\ result' = Returned(setField(args.field, args.value))
    /\ UNCHANGED << tableVars, args >>

ScanRow ==
    /\ args.fn = "scanRow"
    /\ ~result.set
    /\ result' = Returned(scanRow(args.row, args.headers, args.dest))
    /\ UNCHANGED << tableVars, args >>

ScanIntoSlice ==
    /\ args.fn = "scanIntoSlice"
    /\ ~result.set
    /\ result' = Returned(scanIntoSlice(args.rows, args.headers, args.dest))
    /\ UNCHANGED << tableVars, args >>

NextCodec == StructToValues \/ EncodeDecode \/ SetField \/ ScanRow \/ ScanIntoSlice

SpecCodec == InitCodec /\ [][NextCodec]_vars


\* ------------------------------------------------------------------------
\* UpdateWhere and DeleteWhere next to another client of the same sheet
\* ------------------------------------------------------------------------

\* The largest number of changes the other client makes during one
\* operation.
MaxOtherChanges == 1

\* The records the other client inserts and writes.
OtherRecords == { UserCy, User(<< "B", "o" >>, << >>, 20) }

\* One change of the other client: its Table.Insert of one record, its
\* Table.Delete or its Table.Update, made when this client had issued
\* issued calls.
Change(kind, rowIndex, record, issued) ==
    [kind |-> kind, rowIndex |-> rowIndex, record |-> record, issued |-> issued]

\* The sheet after a change of the other client.
otherChange(sh, c) ==
    CASE c.kind = "Insert" ->
            storeAppend(sh, structSliceToValues(SliceV(<< c.record >>)).values)
      [] c.kind = "Delete" ->
            storeDeleteRows(sh, deleteIndices(c.rowIndex))
      [] c.kind = "Update" ->
            LET vals == structToValues(c.record).values
            IN  storeWrite(sh, updateRange(TableName, c.rowIndex, vals), << vals >>)

\* The other client gets its turn between two GridStore calls of this
\* client's UpdateWhere or DeleteWhere.
OtherTurn ==
    /\ pc \in { "uw_write", "dw_delete" }
    /\ Len(env) < MaxOtherChanges

Other(c) ==
    /\ OtherTurn
    /\ sheet' = otherChange(sheet, c)
    /\ env' = Append(env, c)
    /\ UNCHANGED << calls, pc, op, q, hist, ret, dest, err, data, indices, values, idx, args, result >>

OtherInsert(record) ==
    /\ structToValues(record).err = ErrNil
    /\ Other(Change("Insert", 0, record, Len(calls)))

OtherDelete(rowIndex) ==
    /\ rowIndex + 1 < Len(sheet)
    /\ Other(Change("Delete", rowIndex, UserZero, Len(calls)))

OtherUpdate(rowIndex, record) ==
    /\ rowIndex + 1 < Len(sheet)
    /\ Other(Change("Update", rowIndex, record, Len(calls)))

NextConcurrent ==
    \/ \E f \in TableFilters, record \in Records, fail \in BOOLEAN : UpdateWhereRead(f, record, fail)
    \/ \E fail \in BOOLEAN : UpdateWhereWrite(fail)
    \/ \E f \in TableFilters, fail \in BOOLEAN : DeleteWhereRead(f, fail)
    \/ \E fail \in BOOLEAN : DeleteWhereDelete(fail)
    \/ \E record \in OtherRecords : OtherInsert(record)
    \/ \E i \in 0..(MaxRows - 1) : OtherDelete(i)
    \/ \E i \in 0..(MaxRows - 1), record \in OtherRecords : OtherUpdate(i, record)

SpecConcurrent == Init /\ [][NextConcurrent]_vars


\* ------------------------------------------------------------------------
\* Several Gets, on two Table handles, of a sheet that changes in between
\* ------------------------------------------------------------------------

\* The largest number of Gets of one behaviour.
MaxGets == 2

\* The sheets at the start: none, a header alone, and two with data rows.
GetSheets ==
    { << >>, << Header >>, << Header, RowAl >>, << Header, RowShort, RowBo >> }

\* db.Table(name) for the two names.
TableNames == { TableName, OrdersName }

\* The destination of every Get: an empty slice of User.
GetDest == PtrSliceV(UserZero, << >>)

\* A Get that returned to its caller: the table it was on and the rows its
\* Read had returned.
ReturnOf(table, rows) == [kind |-> "Return", table |-> table, rows |-> rows]

ReturnsOf(e) == LET is(c) == c.kind = "Return" IN SelectSeq(e, is)

ChangesOf(e) == LET is(c) == c.kind # "Return" IN SelectSeq(e, is)

\* The sheet after a Write of one row of cells at row 1.
headerWritten(sh, cells) ==
    storeWrite(sh, rangeA1(TableName, 1, columnIndexToLetter(Len(cells) - 1)), << cells >>)

InitGets ==
    /\ sheet \in GetSheets
    /\ InitTable
    /\ args = NoArgs
    /\ result = NoResult

\* t.Query() on the Table of the given name.
QueryOn(name) ==
    /\ pc = "idle"
    /\ Len(ReturnsOf(env)) < MaxGets
    /\ pc' = "query"
    /\ q' = [NoQuery EXCEPT !.table = name]
    /\ UNCHANGED << sheet, calls, op, hist, ret, dest, err, data, indices, values, idx, env, args, result >>

\* Get returned; its caller goes on.
GetReturns ==
    /\ pc = "done"
    /\ op.name = "Get"
    /\ pc' = "idle"
    /\ env' = Append(env, ReturnOf(q.table, IF LastCallOk THEN data ELSE << >>))
    /\ UNCHANGED << sheet, calls, op, q, hist, ret, dest, err, data, indices, values, idx, args, result >>

BetweenGets ==
    /\ pc = "idle"
    /\ Len(ChangesOf(env)) < MaxOtherChanges

\* Between two Gets another client deletes, rewrites or inserts a row.
OtherChangesRows(c) ==
    /\ BetweenGets
    /\ c.kind \in { "Delete", "Update" } => c.rowIndex + 1 < Len(sheet)
    /\ sheet' = otherChange(sheet, c)
    /\ env' = Append(env, c)
    /\ UNCHANGED << calls, pc, op, q, hist, ret, dest, err, data, indices, values, idx, args, result >>

\* Between two Gets another user of the sheet rewrites its header row.
OtherChangesHeader(cells) ==
    /\ BetweenGets
    /\ Len(sheet) >= 1
    /\ sheet' = headerWritten(sheet, cells)
    /\ env' = Append(env, [kind |-> "Header", cells |-> cells])
    /\ UNCHANGED << calls, pc, op, q, hist, ret, dest, err, data, indices, values, idx, args, result >>

NextGets ==
    \/ \E name \in TableNames : QueryOn(name)
    \/ \E fail \in BOOLEAN : Get(GetDest, fail)
    \/ GetReturns
    \/ \E c \in { Change("Delete", 0, UserZero, 0), Change("Update", 0, UserCy, 0),
                  Change("Insert", 0, UserCy, 0) } : OtherChangesRows(c)
    \/ OtherChangesHeader(HeaderSwapped)

SpecGets == InitGets /\ [][NextGets]_vars


\* ------------------------------------------------------------------------
\* compareValues and the ordering operators applied on their own
\* ------------------------------------------------------------------------

\* The cells and values compared: texts that read as numbers, some of them
\* the same number written differently, texts that do not, a text that
\* starts like a number, the empty text, and numbers.
CompareCells ==
    { StrV(<< "1", "0" >>), StrV(<< "9" >>), StrV(<< "+", "9" >>), StrV(<< "-", "5" >>),
      StrV(<< "1", "0", ".", "0" >>), StrV(<< ".", "5" >>),
      StrV(<< "1", "a" >>), StrV(<< "a", "b", "c" >>), StrV(<< "x", "y", "z" >>), StrV(<< >>),
      FloatV(10, 0), FloatV(5, 1), IntV(20) }

OrderOperators == { OpGt, OpGe, OpLt, OpLe }

InitCompare ==
    /\ sheet = << >>
    /\ InitTable
    /\ args \in
         { [fn |-> "compareValues", a |-> a, b |-> b, c |-> c] : a, b, c \in CompareCells }
         \cup
         { [fn |-> "matchesOperator", cell |-> a, operator |-> o, value |-> b] :
              a, b \in CompareCells, o \in OrderOperators }
    /\ result = NoResult

\* compareValues on the pairs of three values.
CompareValues ==
    /\ args.fn = "compareValues"
    /\ ~result.set
    /\ result' = Returned([ab |-> compareValues(args.a, args.b),
                           ba |-> compareValues(args.b, args.a),
                           bc |-> compareValues(args.b, args.c),
                           ac |-> compareValues(args.a, args.c)])
    /\ UNCHANGED << tableVars, args >>

NextCompare == CompareValues \/ MatchesOperator

SpecCompare == InitCompare /\ [][NextCompare]_vars


\* ------------------------------------------------------------------------
\* columnIndexToLetter applied on its own
\* ------------------------------------------------------------------------

\* The indices handed to columnIndexToLetter: NegativeIndices negative ones
\* and the non-negative ones up to the first column of three letters.
NegativeIndices == 3
MaxIndex == 702

InitLetter ==
    /\ sheet = << >>
    /\ InitTable
    /\ args \in { [fn |-> "columnIndexToLetter", index |-> i] : i \in (0 - NegativeIndices)..MaxIndex }
    /\ result = NoResult

ColumnIndexToLetter ==
    /\ args.fn = "columnIndexToLetter"
    /\ ~result.set
    /\ result' = Returned(columnIndexToLetter(args.index))
    /\ UNCHANGED << tableVars, args >>

NextLetter == ColumnIndexToLetter

SpecLetter == InitLetter /\ [][NextLetter]_vars


\* ------------------------------------------------------------------------
\* applyLimit applied on its own
\* ------------------------------------------------------------------------

\* The limits of the query, NegativeLimits negative ones and zero among
\* them, and the longest list of rows handed to applyLimit.
NegativeLimits == 2
MaxLimit == 4
MaxLimitRows == 4

InitLimit ==
    /\ sheet = << >>
    /\ InitTable
    /\ args \in { [fn |-> "applyLimit", limit |-> n, rows |-> rows] :
                     n \in (0 - NegativeLimits)..MaxLimit, rows \in SeqsUpTo(DataRows, MaxLimitRows) }
    /\ result = NoResult

\* applyLimit on the rows, and once more on what it returned.
ApplyLimit ==
    /\ args.fn = "applyLimit"
    /\ ~result.set
    /\ LET qry == [NoQuery EXCEPT !.limit = args.limit]
           out == applyLimit(qry, args.rows)
       IN  result' = Returned([out |-> out, again |-> applyLimit(qry, out)])
    /\ UNCHANGED << tableVars, args >>

NextLimit == ApplyLimit

SpecLimit == InitLimit /\ [][NextLimit]_vars


\* ------------------------------------------------------------------------
\* A Get with one filter, then UpdateWhere or DeleteWhere on the same sheet
\* ------------------------------------------------------------------------

\* The most calls of Where on one query.
MaxWheres == 2

\* The longest sheet, in data rows, under the usual header.
MaxSelectRows == 2

HeaderNameTwice == << StrV(ColName), StrV(ColAge), StrV(ColName) >>

\* The sheets at the start: none, the usual header over up to MaxSelectRows
\* data rows, a header that names the Name column twice over rows whose two
\* Name cells differ, and a header that lacks the Age column.
SelectSheets ==
    { << >> }
    \cup { << Header >> \o rows : rows \in SeqsUpTo(DataRows, MaxSelectRows) }
    \cup { << HeaderNameTwice,
              << StrV(<< "A", "l" >>), FloatV(30, 0), StrV(<< "B", "o" >>) >>,
              << StrV(<< "B", "o" >>), FloatV(100, 0), StrV(<< "A", "l" >>) >>,
              RowShort >>,
           << << StrV(ColName) >>, RowShort, << StrV(<< "B", "o" >>) >> >> }

\* Either a table over one of the sheets, or the arguments of one call of
\* matchesFilter.
InitSelect ==
    /\ InitTable
    /\ result = NoResult
    /\ \/ /\ sheet \in SelectSheets
          /\ args = NoArgs
       \/ /\ sheet = << >>
          /\ args \in { [fn |-> "matchesFilter", row |-> r, headers |-> h, filter |-> f] :
                           r \in FilterRows, h \in FilterHeaders, f \in SingleFilters }

\* Where on a query that has fewer than MaxWheres filters.
WhereOnce(f) ==
    /\ Len(q.filters) < MaxWheres
    /\ Where(f)

\* Get returned; its caller keeps the query, what Get returned and what it
\* left in the destination, and goes on.
GetReturnsToCaller ==
    /\ pc = "done"
    /\ op.name = "Get"
    /\ env = << >>
    /\ pc' = "idle"
    /\ env' = Append(env, [kind |-> "Return", op |-> op, q |-> q, err |-> err,
                           dest |-> dest, data |-> data])
    /\ UNCHANGED << sheet, calls, op, q, hist, ret, dest, err, data, indices, values, idx, args, result >>

\* The calls on the table are those of the behaviours that start with a
\* table.
NextSelect ==
    \/ MatchesFilter
    \/ args = NoArgs /\ Query
    \/ \E f \in TableFilters : args = NoArgs /\ WhereOnce(f)
    \/ \E fail \in BOOLEAN : args = NoArgs /\ Get(GetDest, fail)
    \/ args = NoArgs /\ GetReturnsToCaller
    \/ \E f \in TableFilters, fail \in BOOLEAN : args = NoArgs /\ UpdateWhereRead(f, UserCy, fail)
    \/ \E fail \in BOOLEAN : args = NoArgs /\ UpdateWhereWrite(fail)
    \/ \E f \in TableFilters, fail \in BOOLEAN : args = NoArgs /\ DeleteWhereRead(f, fail)
    \/ \E fail \in BOOLEAN : args = NoArgs /\ DeleteWhereDelete(fail)

SpecSelect == InitSelect /\ [][NextSelect]_vars


\* ------------------------------------------------------------------------
\* Update and UpdateWhere of records of several widths, and a Get after them
\* ------------------------------------------------------------------------

\* The largest number of fields of a record passed to Update.
MaxFields == 27

\* type Wide struct { F1, F2, ..., Fn string }, the i-th field holding the
\* text of i.
Wide(n) == StructV([i \in 1..n |-> Field(<< "F" >> \o Itoa(i), << >>, StrV(Itoa(i)))])

\* The records passed to Update and UpdateWhere: structs whose rows have
\* two cells, none (every field ignored, no field at all), as many as the
\* alphabet has letters and one more, and a value that is no struct.
UpdateRecords ==
    { UserCy, PtrV(UserCy), Hidden(<< "t", "k" >>), StructV(<< >>),
      Wide(MaxFields - 1), Wide(MaxFields), StrV(<< "x" >>) }

\* The sheets at the start: none, a header alone, one whose header lists
\* the columns of User in declaration order and one whose header lists them
\* the other way round.
UpdateSheets ==
    { << >>,
      << Header >>,
      << Header, RowAl, RowBo >>,
      << HeaderSwapped, << FloatV(30, 0), StrV(<< "A", "l" >>) >>,
         << FloatV(100, 0), StrV(<< "B", "o" >>) >> >> }

InitUpdate ==
    /\ sheet \in UpdateSheets
    /\ InitTable
    /\ args = NoArgs
    /\ result = NoResult

\* Update or UpdateWhere returned; its caller goes on.
UpdateReturns ==
    /\ pc = "done"
    /\ op.name \in { "Update", "UpdateWhere" }
    /\ pc' = "returned"
    /\ env' = Append(env, [kind |-> "Return", op |-> op, err |-> err, calls |-> calls])
    /\ UNCHANGED << sheet, calls, op, q, hist, ret, dest, err, data, indices, values, idx, args, result >>

\* t.Query() by the caller that has updated the table.
QueryAfterUpdate ==
    /\ pc = "returned"
    /\ pc' = "query"
    /\ q' = NoQuery
    /\ UNCHANGED << sheet, calls, op, hist, ret, dest, err, data, indices, values, idx, env, args, result >>

NextUpdate ==
    \/ \E i \in RowIndices, record \in UpdateRecords, fail \in BOOLEAN : Update(i, record, fail)
    \/ \E f \in TableFilters, record \in UpdateRecords, fail \in BOOLEAN : UpdateWhereRead(f, record, fail)
    \/ \E fail \in BOOLEAN : UpdateWhereWrite(fail)
    \/ UpdateReturns
    \/ QueryAfterUpdate
    \/ \E fail \in BOOLEAN : Get(GetDest, fail)

SpecUpdate == InitUpdate /\ [][NextUpdate]_vars


\* ------------------------------------------------------------------------
\* Properties of Get and of the query builder
\* ------------------------------------------------------------------------

Min(a, b) == IF a < b THEN a ELSE b

LastCall == calls[Len(calls)]

\* Get has returned and its Read had succeeded.
GetReturned == pc = "done" /\ op.name = "Get" /\ Len(calls) = 1 /\ calls[1].ok

\* The data rows of rows that satisfy every filter of fs, in row order.
MatchingRows(rows, fs) ==
    LET every(row) == \A i \in 1..Len(fs) : matchesFilter(row, rows[1], fs[i])
    IN  SelectSeq(Tail(rows), every)

DecodedRows(rows, headers) == [i \in 1..Len(rows) |-> scanRow(rows[i], headers, UserZero)]

\* C1: on a sheet with a header and at least one data row, Get appends to a
\* slice destination the decoded data rows that satisfy every filter, in
\* row order: the first min(limit, m) of the m matching rows when limit > 0
\* and all of them when limit <= 0.
GetFiltersThenLimits ==
    (GetReturned /\ Len(data) >= 2 /\ op.dest.k = "ptrslice") =>
        LET matching == MatchingRows(data, q.filters)
            m == Len(matching)
            kept == IF q.limit > 0 THEN SubSeq(matching, 1, Min(q.limit, m)) ELSE matching
        IN  /\ err = ErrNil
            /\ dest.items = op.dest.items \o DecodedRows(kept, data[1])

\* A Get with limit 1 whose first data row fails a filter and which still
\* found a row further down.
GetFiltersThenLimitsWitness ==
    /\ GetReturned /\ Len(data) >= 3 /\ op.dest.k = "ptrslice"
    /\ q.limit = 1
    /\ Len(q.filters) > 0
    /\ MatchingRows(<< data[1], data[2] >>, q.filters) = << >>
    /\ Len(dest.items) = Len(op.dest.items) + 1

\* C7 (Get, UpdateWhere, DeleteWhere): when the Read returns fewer than two
\* rows the operation has returned nil right after it, with no Write and no
\* DeleteRows issued and the sheet as it was, and Get's destination is the
\* one passed in.
ShortReadIsEmptySuccess ==
    (op.name \in { "Get", "UpdateWhere", "DeleteWhere" } /\ calls[1].ok /\ Len(data) < 2) =>
        /\ pc = "done"
        /\ err = ErrNil
        /\ Len(calls) = 1 /\ calls[1].fn = "Read"
        /\ sheet = data
        /\ (op.name = "Get" => dest = op.dest)

\* A Get into a value that is no slice, on a sheet with only its header.
ShortReadIsEmptySuccessWitness ==
    /\ pc = "done" /\ op.name = "Get" /\ calls[1].ok
    /\ Len(data) = 1
    /\ Len(q.filters) > 0 /\ q.limit > 0
    /\ op.dest.k # "ptrslice"
    /\ err = ErrNil

\* C8: Get returns what it returns on the same query without OrderBy, and
\* the decoded rows are in row order.
OrderByHasNoEffect ==
    GetReturned =>
        /\ [dest |-> dest, err |-> err]
             = queryGet([q EXCEPT !.orderBy = << >>, !.descending = FALSE], data, op.dest)
        /\ (Len(data) >= 2 /\ op.dest.k = "ptrslice" /\ q.limit <= 0) =>
              dest.items = op.dest.items \o DecodedRows(MatchingRows(data, q.filters), data[1])

\* A Get with a descending OrderBy that decoded two different rows.
OrderByHasNoEffectWitness ==
    /\ GetReturned /\ op.dest.k = "ptrslice"
    /\ q.orderBy # << >> /\ q.descending
    /\ Len(dest.items) >= Len(op.dest.items) + 2
    /\ dest.items[Len(dest.items)] # dest.items[Len(dest.items) - 1]

\* The Query after one recorded builder call.
applyBuilderCall(qry, c) ==
    CASE c.fn = "Where" -> qWhere(qry, c.filter.Column, c.filter.Operator, c.filter.Value)
      [] c.fn = "Limit" -> qLimit(qry, c.n)
      [] c.fn = "OrderBy" -> qOrderBy(qry, c.order.column, c.order.descending)

RECURSIVE buildQuery(_)
buildQuery(cs) ==
    IF Len(cs) = 0 THEN NoQuery
    ELSE applyBuilderCall(buildQuery(SubSeq(cs, 1, Len(cs) - 1)), cs[Len(cs)])

Permutations1To(n) ==
    { p \in [1..n -> 1..n] : \A i, j \in 1..n : p[i] = p[j] => i = j }

AllPermutations == [n \in 0..MaxBuilderCalls |-> Permutations1To(n)]

PermutationsOf(n) == AllPermutations[n]

CountCalls(fn) == Cardinality({ i \in 1..Len(hist) : hist[i].fn = fn })

\* C9: with at most one Limit and at most one OrderBy among the builder
\* calls, Get on the query built by any permutation of the calls returns
\* what this Get returned; and every builder call returned the Query it was
\* called on.
BuilderOrderIndependent ==
    /\ (pc = "query" /\ Len(hist) > 0) => ret = QueryAddr
    /\ (GetReturned /\ CountCalls("Limit") <= 1 /\ CountCalls("OrderBy") <= 1) =>
          \A qry \in { buildQuery([i \in 1..Len(hist) |-> hist[p[i]]]) :
                          p \in PermutationsOf(Len(hist)) } :
              queryGet(qry, data, op.dest) = [dest |-> dest, err |-> err]

\* A Get after two different Where calls and a Limit, on a sheet where one
\* filter alone lets more rows through than both.
BuilderOrderIndependentWitness ==
    /\ GetReturned /\ op.dest.k = "ptrslice" /\ Len(data) >= 2
    /\ Len(hist) = 3 /\ CountCalls("Where") = 2 /\ CountCalls("Limit") = 1
    /\ hist[1].fn = "Where" /\ hist[3].fn = "Where" /\ hist[1] # hist[3]
    /\ Len(MatchingRows(data, << hist[1].filter >>)) > Len(MatchingRows(data, q.filters))
    /\ Len(MatchingRows(data, << hist[3].filter >>)) > Len(MatchingRows(data, q.filters))
    /\ Len(dest.items) > Len(op.dest.items)


\* ------------------------------------------------------------------------
\* Properties of the Table facade
\* ------------------------------------------------------------------------

\* The 0-based positions of the data rows of rows that match the filter f.
MatchPositions(rows, f) ==
    { p \in 0..(Len(rows) - 2) : matchesFilter(rows[p + 2], rows[1], f) }

CallsOf(fn) == LET is(c) == c.fn = fn IN SelectSeq(calls, is)

\* C2: after a DeleteWhere that returned nil, with the store deleting the
\* indices of the call one by one in the order given, the sheet is the
\* header and the data rows that did not match, in their order.
DeleteWhereRemovesExactlyMatches ==
    (pc = "done" /\ op.name = "DeleteWhere" /\ err = ErrNil /\ Len(data) >= 1) =>
        LET stays(row) == ~matchesFilter(row, data[1], op.filter)
        IN  sheet = << data[1] >> \o SelectSeq(Tail(data), stays)

\* A DeleteWhere that deleted two rows and left a row that stood below one
\* of them.
DeleteWhereRemovesExactlyMatchesWitness ==
    /\ pc = "done" /\ op.name = "DeleteWhere" /\ err = ErrNil
    /\ Len(indices) >= 2
    /\ Len(data) = 4 /\ Len(sheet) = 2
    /\ ~matchesFilter(data[4], data[1], op.filter)

\* C3: Update(i, rec) and Delete(i) with i >= 0 address the same row, the
\* (i+1)-th below the header: Update's one Write has the A1 row number
\* i + 2, Delete's one DeleteRows has the single index i + 1, and neither
\* is the header row.
UpdateAndDeleteAddressSameRow ==
    /\ (pc = "done" /\ op.name = "Update" /\ Len(calls) > 0) =>
          LET r == parseRange(calls[1].range)
          IN  /\ Len(calls) = 1 /\ calls[1].fn = "Write"
              /\ r.name = TableName
              /\ r.startRow = op.rowIndex + 2 /\ r.endRow = r.startRow
              /\ r.startRow - 1 = deleteIndices(op.rowIndex)[1]
              /\ r.startRow > 1
    /\ (pc = "done" /\ op.name = "Update" /\ op.rowIndex >= 0
            /\ structToValues(op.record).err = ErrNil) => Len(calls) = 1
    /\ (pc = "done" /\ op.name = "Delete" /\ op.rowIndex >= 0) =>
          /\ Len(calls) = 1 /\ calls[1].fn = "DeleteRows"
          /\ calls[1].indices = << op.rowIndex + 1 >>
          /\ calls[1].indices[1] > 0
    /\ (pc = "done" /\ op.name \in { "Update", "Delete" } /\ op.rowIndex < 0) => Len(calls) = 0

\* An Update of row 0 that wrote the first row below the header.
UpdateAndDeleteAddressSameRowWitness ==
    /\ pc = "done" /\ op.name = "Update" /\ op.rowIndex = 0
    /\ Len(calls) = 1 /\ calls[1].ok
    /\ Len(sheet) >= 3
    /\ sheet[2][1] = StrV(<< "C", "y" >>)

\* C4: the Writes of UpdateWhere go to the matching rows in ascending row
\* order, one each, at sheet row p + 2 for the data position p, all with
\* the one encoded row; an UpdateWhere that returned nil has written every
\* matching row, and with no match it returned nil without a Write.
UpdateWhereWritesEachMatch ==
    (op.name = "UpdateWhere" /\ calls[1].ok /\ Len(data) >= 2) =>
        LET writes == CallsOf("Write")
            matches == MatchPositions(data, op.filter)
            row(k) == parseRange(writes[k].range).startRow
        IN  /\ calls = << calls[1] >> \o writes
            /\ \A k \in 1..Len(writes) :
                  /\ (row(k) - 2) \in matches
                  /\ Cardinality({ p \in matches : p < row(k) - 2 }) = k - 1
                  /\ parseRange(writes[k].range).endRow = row(k)
                  /\ Len(writes[k].values) = 1
                  /\ writes[k].values = writes[1].values
                  /\ writes[k].values[1] = structToValues(op.record).values
            /\ (pc = "done" /\ err = ErrNil) => Len(writes) = Cardinality(matches)
            /\ matches = { } => (pc = "done" /\ err = ErrNil)

\* An UpdateWhere that returned nil after two Writes, with a row that did
\* not match between the two it wrote.
UpdateWhereWritesEachMatchWitness ==
    /\ pc = "done" /\ op.name = "UpdateWhere" /\ err = ErrNil
    /\ Len(data) = 4
    /\ MatchPositions(data, op.filter) = { 0, 2 }
    /\ Len(calls) = 3

\* The rows of the sheet that the Writes of UpdateWhere have reached so far
\* hold the encoded record; every other row is as it was read.
WrittenSoFar(done) ==
    /\ Len(sheet) = Len(data)
    /\ \A i \in 1..Len(data) :
          IF \E k \in 1..done : indices[k] + 2 = i
          THEN /\ Len(sheet[i]) >= Len(values)
               /\ \A c \in 1..Len(values) : sheet[i][c] = storeCell(values[c])
          ELSE sheet[i] = data[i]

\* C5: a failed Write is the last call of UpdateWhere, which then returns
\* an error that wraps the failure; the rows written before stay written
\* and the rows that were to follow stay as they were.
UpdateWhereStopsAtFailedWrite ==
    (op.name = "UpdateWhere" /\ Len(calls) >= 2 /\ \E i \in 2..Len(calls) : ~calls[i].ok) =>
        /\ pc = "done"
        /\ \A i \in 2..Len(calls) : ~calls[i].ok <=> i = Len(calls)
        /\ Len(err) = 2 /\ err[2] = WriteError[1]
        /\ WrittenSoFar(Len(calls) - 2)

\* An UpdateWhere whose second Write of three failed.
UpdateWhereStopsAtFailedWriteWitness ==
    /\ pc = "done" /\ op.name = "UpdateWhere"
    /\ Len(indices) = 3
    /\ Len(calls) = 3 /\ calls[2].ok /\ ~calls[3].ok
    /\ sheet[2] # data[2] /\ sheet[3] = data[3] /\ sheet[4] = data[4]

StrictlyDescending(seq) == \A i \in 1..(Len(seq) - 1) : seq[i] > seq[i + 1]

\* C6: DeleteWhere issues no DeleteRows when no data row matches and at
\* most one otherwise, whose indices are position + 1 of each matching row,
\* once each, strictly descending, none below 1 and none above the number
\* of data rows read.
DeleteWhereIssuesOneDescendingCall ==
    (op.name = "DeleteWhere" /\ calls[1].ok /\ Len(data) >= 2) =>
        LET deletes == CallsOf("DeleteRows")
            matches == MatchPositions(data, op.filter)
        IN  /\ Len(deletes) <= 1
            /\ matches = { } => (Len(deletes) = 0 /\ pc = "done" /\ err = ErrNil)
            /\ (pc = "done" /\ matches # { }) => Len(deletes) = 1
            /\ \A k \in 1..Len(deletes) :
                  LET is == deletes[k].indices
                  IN  /\ { is[i] : i \in 1..Len(is) } = { p + 1 : p \in matches }
                      /\ Len(is) = Cardinality(matches)
                      /\ StrictlyDescending(is)
                      /\ \A i \in 1..Len(is) : is[i] >= 1 /\ is[i] <= Len(data) - 1

\* A DeleteWhere whose call carries the indices 3 and 1.
DeleteWhereIssuesOneDescendingCallWitness ==
    /\ pc = "done" /\ op.name = "DeleteWhere"
    /\ Len(calls) = 2 /\ calls[2].fn = "DeleteRows"
    /\ calls[2].indices = << 3, 1 >>

\* ------------------------------------------------------------------------
\* Properties of matchesOperator
\* ------------------------------------------------------------------------

\* lower-cased s has lower-cased sub as a contiguous run.
FoldedSubstring(s, sub) ==
    \E off \in 0..(Len(s) - Len(sub)) :
        \A j \in 1..Len(sub) : LowerChar(s[off + j]) = LowerChar(sub[j])

\* C10: on the canonical texts of cell and value, "=" and "==" are text
\* equality, "!=" is the negation of "=", "contains" and "like" are the
\* case-insensitive substring test, and an operator outside the table
\* gives false.
MatchesOperatorFollowsTable ==
    result.set =>
        LET c == Sprintv(args.cell)
            v == Sprintv(args.value)
            o == args.operator
        IN  /\ o \in { OpEq, OpEqEq } => (result.val <=> c = v)
            /\ o = OpNe => (result.val <=> ~matchesOperator(args.cell, OpEq, args.value))
            /\ o \in { OpContains, OpLike } => (result.val <=> FoldedSubstring(c, v))
            /\ o \notin KnownOperators => ~result.val

\* "contains" found a value that occurs in the cell only in another case.
MatchesOperatorFollowsTableWitness ==
    /\ result.set /\ result.val
    /\ args.operator = OpContains
    /\ ~Contains(Sprintv(args.cell), Sprintv(args.value))
    /\ Len(Sprintv(args.value)) > 0


\* ------------------------------------------------------------------------
\* Properties of the column lookup of filters
\* ------------------------------------------------------------------------

\* The positions of the header cells that are the text name.
HeaderPositions(headers, name) == { i \in 1..Len(headers) : headers[i] = StrV(name) }

LeastOf(S) == CHOOSE i \in S : \A j \in S : i <= j

\* The filter has no cell to look at in the row.
CellAbsent(row, headers, f) ==
    \/ HeaderPositions(headers, f.Column) = { }
    \/ LeastOf(HeaderPositions(headers, f.Column)) > Len(row)

\* What a filter must answer on a row: no when its cell is absent, else the
\* operator's answer on the cell under the first header cell of that name.
FilterHolds(row, headers, f) ==
    /\ ~CellAbsent(row, headers, f)
    /\ matchesOperator(row[LeastOf(HeaderPositions(headers, f.Column))], f.Operator, f.Value)

\* C11: a filter whose column the header lacks, or whose column lies at or
\* beyond the end of the row, answers no for every operator, "!=" included;
\* otherwise it answers for the cell under the first header cell equal to
\* the column name; a query's filters accept a row only if each of them
\* does, so one filter with an absent cell rejects the row whatever the
\* others say.
AbsentColumnRejectsRow ==
    /\ (result.set /\ args.fn = "matchesFilter") =>
          /\ CellAbsent(args.row, args.headers, args.filter) => result.val = FALSE
          /\ result.val = FilterHolds(args.row, args.headers, args.filter)
    /\ (result.set /\ args.fn = "matchesFilters") =>
          /\ (\E i \in 1..Len(args.filters) : CellAbsent(args.row, args.headers, args.filters[i]))
                => result.val = FALSE
          /\ result.val = \A i \in 1..Len(args.filters) :
                             FilterHolds(args.row, args.headers, args.filters[i])

\* A row that passes the first filter of a query and is rejected because the
\* second one, a "!=", names a column the header lacks.
AbsentColumnRejectsRowWitness ==
    /\ result.set
    /\ args.fn = "matchesFilters"
    /\ Len(args.filters) = 2
    /\ FilterHolds(args.row, args.headers, args.filters[1])
    /\ args.filters[2].Operator = OpNe
    /\ HeaderPositions(args.headers, args.filters[2].Column) = { }
    /\ result.val = FALSE


\* ------------------------------------------------------------------------
\* Properties of the errors of the Table facade
\* ------------------------------------------------------------------------

\* A structure or a pointer to one.
IsStructure(v) == v.k = "struct" \/ (v.k = "ptr" /\ v.elem.k = "struct")

IsSequenceOfStructures(v) ==
    v.k = "slice" /\ \A i \in 1..Len(v.items) : IsStructure(v.items[i])

RangeErrorText == "row index cannot be negative"

\* The innermost message of an error of shape.
ShapeErrorTexts == { "records must be a slice", "record must be a struct" }

\* C12: Update and Delete with a negative row index return the range error,
\* Insert with a value that is no sequence of structures and Update with a
\* record that is no structure return a shape error, and in each of these
\* cases the operation has issued no GridStore call at all.
ArgumentErrorsBeforeAnyCall ==
    pc = "done" =>
       /\ (op.name \in { "Update", "Delete" } /\ op.rowIndex < 0) =>
             calls = << >> /\ err = << RangeErrorText >>
       /\ (op.name = "Insert" /\ ~IsSequenceOfStructures(op.records)) =>
             /\ calls = << >>
             /\ Len(err) = 2
             /\ err[2] \in ShapeErrorTexts
       /\ (op.name = "Update" /\ op.rowIndex >= 0 /\ ~IsStructure(op.record)) =>
             /\ calls = << >>
             /\ Len(err) = 2
             /\ err[2] \in ShapeErrorTexts

\* Insert returned for a sequence whose second element is no structure.
ArgumentErrorsBeforeAnyCallWitness ==
    /\ pc = "done"
    /\ op.name = "Insert"
    /\ op.records.k = "slice"
    /\ Len(op.records.items) = 2
    /\ IsStructure(op.records.items[1])
    /\ ~IsStructure(op.records.items[2])
    /\ calls = << >>
    /\ err # ErrNil

\* The error a failing GridStore call returns.
StoreError(fn) ==
    CASE fn = "Read" -> ReadError
      [] fn = "Write" -> WriteError
      [] fn = "Append" -> AppendError
      [] fn = "DeleteRows" -> DeleteError

\* The end of an error chain: the error the chain was built around.
Cause(e) == << e[Len(e)] >>

\* C13: a GridStore call that returned an error is the last call of the
\* operation (it is not issued again and no other call follows it), the
\* operation has returned, its error is not nil and has the error of that
\* call as its cause, and a Get leaves the destination as it was given.
StoreFailureIsReturned ==
    /\ \A i \in 1..Len(calls) : ~calls[i].ok => i = Len(calls)
    /\ (calls # << >> /\ ~LastCall.ok) =>
          /\ pc = "done"
          /\ err # ErrNil
          /\ Cause(err) = StoreError(LastCall.fn)
          /\ op.name = "Get" => dest = op.dest

\* A Get with a filter whose Read failed, called with a destination that
\* held one element.
StoreFailureIsReturnedWitness ==
    /\ pc = "done"
    /\ op.name = "Get"
    /\ q.filters # << >>
    /\ calls # << >>
    /\ ~LastCall.ok
    /\ op.dest.k = "ptrslice"
    /\ dest = op.dest
    /\ err = << "failed to read data" >> \o ReadError


\* ------------------------------------------------------------------------
\* Properties of the record codec
\* ------------------------------------------------------------------------

DistinctColumns(record) ==
    \A i, j \in 1..Len(record.fields) :
        i # j => columnName(record.fields[i]) # columnName(record.fields[j])

TargetOf(record) == IF record.k = "ptr" THEN record.elem ELSE record

\* The positions of the fields that are not bound to "-".
KeptPositions(fields) == { i \in 1..Len(fields) : fields[i].tag # TagIgnore }

\* The j-th of them in declaration order.
NthKept(fields, j) ==
    CHOOSE i \in KeptPositions(fields) :
        Cardinality({ k \in KeptPositions(fields) : k <= i }) = j

BoolDecodingIsCaseInsensitive ==
    (result.set /\ args.fn = "setField" /\ args.field.k = "bool" /\ args.value.k = "string") =>
        /\ (ToLower(args.value.s) = TextTrue \/ args.value.s = << "1" >>)
              => result.val = BoolV(TRUE)
        /\ (ToLower(args.value.s) = TextFalse \/ args.value.s = << "0" >>)
              => result.val = BoolV(FALSE)

\* The text is one of a value of the field's type.
ParsesAs(field, text) ==
    CASE field.k = "string" -> TRUE
      [] field.k = "int" -> ParseIntOk(text)
      [] field.k = "int8" -> ParseIntOk(text) /\ ParseInt(text) \in -128..127
      [] field.k = "uint" -> ParseUintOk(text)
      [] field.k = "uint8" -> ParseUintOk(text) /\ DigitsValue(text) <= 255
      [] field.k = "float64" -> ParseFloatOk(text)
      [] field.k = "bool" ->
            ToLower(text) \in { TextTrue, TextFalse, << "1" >>, << "0" >>, << "t" >>, << "f" >> }

\* C17: decoding leaves alone every field it cannot fill.  A field whose
\* cell's text is not one of a value of its type keeps the value it had;
\* so does, in a row decoded into a struct, every field not bound to "-"
\* whose column the header lacks or whose cell the row lacks, while the
\* text fields that have a cell still take its text.
DecodeKeepsFieldsItCannotFill ==
    /\ (result.set /\ args.fn = "setField" /\ ~ParsesAs(args.field, Sprintv(args.value)))
          => result.val = args.field
    /\ (result.set /\ args.fn = "scanRow") =>
          \A i \in 1..Len(args.dest.fields) :
              LET f == args.dest.fields[i]
                  P == HeaderPositions(args.headers, columnName(f))
                  absent == P = { } \/ LeastOf(P) > Len(args.row)
              IN  f.tag # TagIgnore =>
                     /\ (absent \/ ~ParsesAs(f.val, Sprintv(args.row[LeastOf(P)])))
                           => result.val.fields[i] = f
                     /\ (~absent /\ f.val.k = "string")
                           => result.val.fields[i].val = StrV(Sprintv(args.row[LeastOf(P)]))


\* ------------------------------------------------------------------------
\* Properties of UpdateWhere and DeleteWhere next to another client
\* ------------------------------------------------------------------------

\* The sheet after the changes of the other client, in order.
RECURSIVE AfterChanges(_, _)
AfterChanges(sh, changes) ==
    IF Len(changes) = 0 THEN sh
    ELSE AfterChanges(otherChange(sh, changes[1]), Tail(changes))

\* C18: whatever the other client does to the sheet in between, UpdateWhere
\* and DeleteWhere read once, address their Writes and their DeleteRows by
\* the positions of the rows that matched in the rows they read, and return
\* nil when none of their calls failed.
SnapshotDecidesTheRows ==
    /\ op.name \in { "UpdateWhere", "DeleteWhere" } =>
          /\ Len(CallsOf("Read")) = 1
          /\ calls[1].fn = "Read"
    /\ (op.name = "UpdateWhere" /\ calls[1].ok /\ Len(data) >= 2) =>
          LET writes == CallsOf("Write")
              matches == MatchPositions(data, op.filter)
          IN  /\ calls = << calls[1] >> \o writes
              /\ \A k \in 1..Len(writes) :
                    LET row == parseRange(writes[k].range).startRow
                    IN  /\ (row - 2) \in matches
                        /\ Cardinality({ p \in matches : p < row - 2 }) = k - 1
              /\ (pc = "done" /\ IsStructure(op.record) /\ \A k \in 1..Len(writes) : writes[k].ok)
                    => (err = ErrNil /\ Len(writes) = Cardinality(matches))
    /\ (op.name = "DeleteWhere" /\ calls[1].ok /\ Len(data) >= 2) =>
          LET deletes == CallsOf("DeleteRows")
              matches == MatchPositions(data, op.filter)
          IN  /\ calls = << calls[1] >> \o deletes
              /\ \A k \in 1..Len(deletes) :
                    { deletes[k].indices[i] : i \in 1..Len(deletes[k].indices) }
                       = { p + 1 : p \in matches }
              /\ (pc = "done" /\ \A k \in 1..Len(deletes) : deletes[k].ok)
                    => (err = ErrNil /\ Len(deletes) = IF matches = { } THEN 0 ELSE 1)

\* The other client deleted a row after the Read, and the operation
\* returned nil having deleted, or overwritten, a row that does not match
\* the filter, while a row that matches is still in the sheet as it was.
SnapshotDecidesTheRowsWitness ==
    /\ pc = "done"
    /\ err = ErrNil
    /\ Len(env) = 1
    /\ env[1].issued = 1
    /\ Len(calls) = 2
    /\ LET before == AfterChanges(data, env)
           hit == IF op.name = "DeleteWhere" THEN calls[2].indices[1] + 1
                  ELSE parseRange(calls[2].range).startRow
       IN  /\ op.name = "DeleteWhere" => Len(calls[2].indices) = 1
           /\ hit <= Len(before)
           /\ ~matchesFilter(before[hit], before[1], op.filter)
           /\ op.name = "UpdateWhere" => sheet[hit] # before[hit]
           /\ op.name = "DeleteWhere" => Len(sheet) = Len(before) - 1
           /\ \E i \in 2..Len(before) :
                 /\ i # hit
                 /\ matchesFilter(before[i], before[1], op.filter)
                 /\ \E j \in 2..Len(sheet) : sheet[j] = before[i]


\* ------------------------------------------------------------------------
\* Properties of repeated Gets
\* ------------------------------------------------------------------------

\* The Gets that were called so far.
GetsCalled == Len(ReturnsOf(env)) + (IF pc = "done" THEN 1 ELSE 0)

\* C19: the Gets called so far have issued one Read each and nothing else,
\* the i-th Read addressed by the bare name of the table of the i-th Get;
\* and a Get whose Read succeeded has decoded the rows the store holds for
\* its table now, whatever earlier Gets had read.
EveryGetReadsAfresh ==
    /\ Len(calls) = GetsCalled
    /\ \A i \in 1..Len(calls) : calls[i].fn = "Read"
    /\ \A i \in 1..Len(ReturnsOf(env)) : calls[i].range = ReturnsOf(env)[i].table
    /\ pc = "done" =>
          /\ LastCall.range = q.table
          /\ q.table \in TableNames
          /\ LastCall.ok =>
                /\ data = storeRead(sheet, q.table)
                /\ dest = queryGet(q, storeRead(sheet, q.table), op.dest).dest
                /\ err = queryGet(q, storeRead(sheet, q.table), op.dest).err

\* The second Get on the same table returned other rows than the first,
\* because the header was rewritten in between: two Reads, and the records
\* decoded against the new header.
EveryGetReadsAfreshWitness ==
    /\ pc = "done"
    /\ Len(calls) = 2
    /\ calls[1].ok /\ calls[2].ok
    /\ calls[1].range = TableName /\ calls[2].range = TableName
    /\ Len(env) = 2
    /\ env[1].kind = "Return" /\ env[2].kind = "Header"
    /\ Len(data) >= 2
    /\ data[1] # env[1].rows[1]
    /\ Tail(data) = Tail(env[1].rows)
    /\ Len(dest.items) = Len(data) - 1
    /\ dest # queryGet(q, env[1].rows, op.dest).dest


\* ------------------------------------------------------------------------
\* Properties of Insert
\* ------------------------------------------------------------------------

\* The row of a record: the values of its fields not bound to "-", in
\* declaration order.
RowOf(record) ==
    LET fields == TargetOf(record).fields
    IN  [j \in 1..Cardinality(KeptPositions(fields)) |-> fields[NthKept(fields, j)].val]

\* C20: an Insert of a sequence of structs has issued one GridStore call
\* and no other: an Append at "<table>!A1" whose rows are the rows of the
\* records, one each, in the order of the records; and it has returned
\* what the Append returned.
InsertIssuesOneAppend ==
    (pc = "done" /\ op.name = "Insert" /\ IsSequenceOfStructures(op.records)) =>
        /\ Len(calls) = 1
        /\ calls[1].fn = "Append"
        /\ calls[1].range = TableName \o << "!", "A", "1" >>
        /\ Len(calls[1].values) = Len(op.records.items)
        /\ \A i \in 1..Len(op.records.items) : calls[1].values[i] = RowOf(op.records.items[i])
        /\ err = IF calls[1].ok THEN ErrNil ELSE AppendError

\* An Insert of two different records returned nil after its Append.
InsertIssuesOneAppendWitness ==
    /\ pc = "done"
    /\ op.name = "Insert"
    /\ op.records.k = "slice"
    /\ Len(op.records.items) = 2
    /\ op.records.items[1] # op.records.items[2]
    /\ Len(calls) = 1
    /\ calls[1].ok
    /\ calls[1].values = << << StrV(<< "C", "y" >>), IntV(41) >>, << StrV(<< "D", "i" >>), IntV(7) >> >>
    /\ err = ErrNil


\* ------------------------------------------------------------------------
\* Properties of Update
\* ------------------------------------------------------------------------

\* The texts of one or two capital letters.
LetterTexts ==
    { << UpperLetters[i] >> : i \in 1..26 }
    \cup { << UpperLetters[i], UpperLetters[j] >> : i, j \in 1..26 }

\* The number of columns from A to the column of the letters L.
ColumnsUpTo(L) ==
    IF Len(L) = 1 THEN IndexOf(UpperLetters, L[1])
    ELSE 26 * IndexOf(UpperLetters, L[1]) + IndexOf(UpperLetters, L[2])

\* Update has issued one Write of the one row of the record, at the range
\* "<table>!A<r>:<L><r>" with r = rowIndex + 2 and A..L as many columns as
\* the row has cells.
WroteOneRowOverItsSpan ==
    LET row == RowOf(op.record)
        r == Itoa(op.rowIndex + 2)
    IN  /\ Len(calls) = 1
        /\ calls[1].fn = "Write"
        /\ calls[1].values = << row >>
        /\ \E L \in LetterTexts :
              /\ ColumnsUpTo(L) = Len(row)
              /\ calls[1].range = TableName \o << "!", "A" >> \o r \o << ":" >> \o L \o r

\* C21, as claimed: Update(i, rec) with i >= 0 and rec a struct has issued
\* exactly one Write of exactly one row at "<table>!A<r>:<L><r>", r = i + 2,
\* the span A..L having as many columns as the encoded row has cells,
\* whatever the number of fields of rec that are not ignored.
UpdateWritesOneRowOverItsSpan ==
    (op.name = "Update" /\ op.rowIndex >= 0 /\ IsStructure(op.record)) =>
        WroteOneRowOverItsSpan

\* C21, amended: the same for the records that have at least one field
\* that is not ignored.
UpdateWritesOneRowOverItsSpanNonEmpty ==
    (op.name = "Update" /\ op.rowIndex >= 0 /\ IsStructure(op.record)
        /\ Len(RowOf(op.record)) >= 1) =>
        WroteOneRowOverItsSpan

\* An Update of a record of 27 fields wrote its row over the columns A
\* to AA of sheet row 2.
UpdateWritesOneRowOverItsSpanNonEmptyWitness ==
    /\ pc = "done"
    /\ op.name = "Update"
    /\ op.rowIndex = 0
    /\ Len(calls) = 1
    /\ calls[1].ok
    /\ Len(calls[1].values[1]) = 27
    /\ calls[1].range = TableName \o << "!", "A", "2", ":", "A", "A", "2" >>
    /\ Len(sheet[2]) = 27


\* ------------------------------------------------------------------------
\* Properties of scanIntoSlice
\* ------------------------------------------------------------------------

\* scanIntoSlice stored the destination's elements followed by one decoded
\* record for every row, in row order, and returned nil.
AppendedOnePerRow ==
    LET before == args.dest.items
        after == result.val.dest.items
    IN  /\ result.val.err = ErrNil
        /\ result.val.dest.k = "ptrslice"
        /\ Len(after) = Len(before) + Len(args.rows)
        /\ SubSeq(after, 1, Len(before)) = before
        /\ \A i \in 1..Len(args.rows) :
              after[Len(before) + i] = scanRow(args.rows[i], args.headers, args.dest.etype)

\* scanIntoSlice refused a destination that is no pointer to a slice, and
\* left it as it was.
RefusedTheDestination ==
    /\ result.val.err = << "dest must be a pointer to a slice" >>
    /\ result.val.dest = args.dest

\* C22, as claimed: given a pointer to a slice, scanIntoSlice appends one
\* record per row, in row order, after the elements the slice holds, which
\* stay as they are; with no row the destination is unchanged; and a
\* destination that is no pointer to a slice is refused with the error of
\* shape and nothing is written.
ScanIntoSliceAppends ==
    (result.set /\ args.fn = "scanIntoSlice") =>
        /\ args.dest.k = "ptrslice" => AppendedOnePerRow
        /\ (args.dest.k = "ptrslice" /\ args.rows = << >>) => result.val.dest = args.dest
        /\ args.dest.k # "ptrslice" => RefusedTheDestination

\* C22, amended: the same for a pointer to a slice of structs; a pointer
\* to a slice of anything else is left as it is, with no error when there
\* is no row and with the error of shape when there is one.
ScanIntoSliceAppendsStructs ==
    (result.set /\ args.fn = "scanIntoSlice") =>
        /\ (args.dest.k = "ptrslice" /\ args.dest.etype.k = "struct") => AppendedOnePerRow
        /\ (args.dest.k = "ptrslice" /\ args.rows = << >>) =>
              (result.val.err = ErrNil /\ result.val.dest = args.dest)
        /\ (args.dest.k = "ptrslice" /\ args.dest.etype.k # "struct" /\ args.rows # << >>) =>
              (result.val.err = << "dest must be a struct" >> /\ result.val.dest = args.dest)
        /\ args.dest.k # "ptrslice" => RefusedTheDestination

\* Two different rows were decoded, in their order, behind the one element
\* the slice held.
ScanIntoSliceAppendsStructsWitness ==
    /\ result.set
    /\ args.fn = "scanIntoSlice"
    /\ args.dest = PtrSliceV(UserZero, << UserCy >>)
    /\ args.headers = Header
    /\ args.rows = << RowBo, RowAl >>
    /\ result.val.err = ErrNil
    /\ result.val.dest.items =
          << UserCy, User(<< "B", "o" >>, << >>, 100), User(<< "A", "l" >>, << >>, 30) >>


\* ------------------------------------------------------------------------
\* Properties of compareValues
\* ------------------------------------------------------------------------

\* C23: compareValues returns -1, 0 or 1, compare(a, b) = -compare(b, a),
\* and compare(a, b) <= 0 with compare(b, c) <= 0 gives compare(a, c) <= 0,
\* also when some of a, b, c read as numbers and others do not.
CompareIsATotalOrder ==
    (result.set /\ args.fn = "compareValues") =>
        /\ result.val.ab \in { -1, 0, 1 }
        /\ result.val.ab = 0 - result.val.ba
        /\ (result.val.ab <= 0 /\ result.val.bc <= 0) => result.val.ac <= 0

\* The text is a base-10 number: an optional sign, then digits with at most
\* one point among them and at least one digit.
IsNumberText(s) ==
    LET body == IF s # << >> /\ s[1] \in { "+", "-" } THEN Tail(s) ELSE s
        points == { i \in 1..Len(body) : body[i] = "." }
    IN  /\ Cardinality(points) <= 1
        /\ Len(body) > Cardinality(points)
        /\ \A i \in (1..Len(body)) \ points : body[i] \in DigitSet

\* The most digits after the point in a text of the model.
MaxDecimals == 3

\* The number a text denotes, times 10^MaxDecimals: its whole part and its
\* digits after the point, each read on its own.
ThousandthsOf(s) ==
    LET neg == s[1] = "-"
        body == IF s[1] \in { "+", "-" } THEN Tail(s) ELSE s
        points == { i \in 1..Len(body) : body[i] = "." }
        p == IF points = { } THEN Len(body) + 1 ELSE CHOOSE i \in points : TRUE
        whole == SubSeq(body, 1, p - 1)
        frac == SubSeq(body, p + 1, Len(body))
        n == DigitsValue(whole) * Pow10(MaxDecimals) + DigitsValue(frac) * Pow10(MaxDecimals - Len(frac))
    IN  IF neg THEN 0 - n ELSE n

Sign(n) == IF n < 0 THEN -1 ELSE IF n > 0 THEN 1 ELSE 0

\* s comes before t byte by byte: at the first place where they differ s
\* has the lower byte, or s ends there and t goes on.
BytesBefore(s, t) ==
    \E k \in 1..Len(t) :
        /\ k <= Len(s) + 1
        /\ \A i \in 1..(k - 1) : s[i] = t[i]
        /\ (k = Len(s) + 1 \/ Code(s[k]) < Code(t[k]))

\* What compare must answer on two values.
OrderOf(a, b) ==
    LET s == Sprintv(a)
        t == Sprintv(b)
    IN  IF IsNumberText(s) /\ IsNumberText(t)
        THEN Sign(ThousandthsOf(s) - ThousandthsOf(t))
        ELSE IF BytesBefore(s, t) THEN -1
        ELSE IF BytesBefore(t, s) THEN 1
        ELSE 0

DistinctHeader(headers) ==
    /\ \A i \in 1..Len(headers) : headers[i].k = "string"
    /\ \A i, j \in 1..Len(headers) : i # j => headers[i] # headers[j]

\* The permutations of 1..n for the headers of the model.
HeaderPermutations == [n \in 0..5 |-> Permutations1To(n)]

\* seq with its first Len(p) cells rearranged by p, the rest in place.
Permuted(seq, p) ==
    [i \in 1..Len(seq) |-> IF i \in DOMAIN p THEN seq[p[i]] ELSE seq[i]]

\* seq without its j-th cell, if it has one.
Without(seq, j) ==
    IF j > Len(seq) THEN seq ELSE SubSeq(seq, 1, j - 1) \o SubSeq(seq, j + 1, Len(seq))

\* The texts that the fields of a struct are bound to.
BoundColumns(record) ==
    { columnName(record.fields[i]) : i \in KeptPositions(record.fields) }

\* C25: scanRow fills every field that is not ignored from the cell under
\* the first header cell that is exactly the field's tag, or the field's
\* name when it has no tag, and leaves it when there is no such header cell
\* or no such cell; so the same rearrangement of a header of distinct
\* names and of the cells under it decodes to the same record, and so
\* does leaving out a column that no field is bound to.
DecodingIsKeyedByName ==
    (result.set /\ args.fn = "scanRow") =>
        /\ \A i \in 1..Len(args.dest.fields) :
              LET f == args.dest.fields[i]
                  name == IF f.tag = << >> THEN f.name ELSE f.tag
                  P == HeaderPositions(args.headers, name)
              IN  result.val.fields[i] =
                     IF f.tag = TagIgnore \/ P = { } \/ LeastOf(P) > Len(args.row) THEN f
                     ELSE [f EXCEPT !.val = setField(f.val, args.row[LeastOf(P)])]
        /\ (DistinctHeader(args.headers) /\ Len(args.row) >= Len(args.headers)) =>
              \A p \in HeaderPermutations[Len(args.headers)] :
                  scanRow(Permuted(args.row, p), Permuted(args.headers, p), args.dest) = result.val
        /\ \A j \in 1..Len(args.headers) :
              (\A name \in BoundColumns(args.dest) : args.headers[j] # StrV(name)) =>
                  scanRow(Without(args.row, j), Without(args.headers, j), args.dest) = result.val

\* A header that names the Name column twice, over different cells: the
\* field took the cell under the first, and the field Age, which has no
\* tag, the cell under its own name.
DecodingIsKeyedByNameWitness ==
    /\ result.set
    /\ args.fn = "scanRow"
    /\ args.dest = UserCy
    /\ args.headers = << StrV(ColName), StrV(ColAge), StrV(ColName) >>
    /\ Len(args.row) >= 3
    /\ args.row[1] # args.row[3]
    /\ result.val = User(Sprintv(args.row[1]), << "p", "w" >>, 300)

\* ------------------------------------------------------------------------
\* Properties of columnIndexToLetter
\* ------------------------------------------------------------------------

\* The number a non-empty text of capital letters stands for when A..Z are
\* the digits 1..26 of a base-26 numeral that has no digit zero.
RECURSIVE BijectiveNumber(_)
BijectiveNumber(letters) ==
    IF Len(letters) = 0 THEN 0
    ELSE 26 * BijectiveNumber(SubSeq(letters, 1, Len(letters) - 1))
         + IndexOf(UpperLetters, letters[Len(letters)])

\* The texts of one or two capital letters and those of three that start
\* with AA.
ColumnTexts ==
    LetterTexts \cup { << "A", "A", UpperLetters[i] >> : i \in 1..26 }

\* The letterings that the documentation of the function lists.
LetteringExamples ==
    { << 0, << "A" >> >>, << 25, << "Z" >> >>, << 26, << "A", "A" >> >>,
      << 51, << "A", "Z" >> >>, << 52, << "B", "A" >> >>, << 701, << "Z", "Z" >> >>,
      << 702, << "A", "A", "A" >> >> }

\* C26: on every index that is not negative columnIndexToLetter returns
\* the text that stands for index + 1 in the base-26 numbering without a
\* zero digit, in agreement with the listed examples; no other index gives
\* that text, and it is the only text of that number; each pass of the loop
\* goes on with a smaller index that is at least -1, so the loop ends; on
\* every negative index it returns "A".
LetteringIsBijectiveBase26 ==
    (result.set /\ args.fn = "columnIndexToLetter") =>
        /\ args.index < 0 => result.val = << "A" >>
        /\ args.index >= 0 =>
              /\ Len(result.val) >= 1
              /\ \A k \in 1..Len(result.val) : InSeq(UpperLetters, result.val[k])
              /\ BijectiveNumber(result.val) = args.index + 1
              /\ \A e \in LetteringExamples : e[1] = args.index => result.val = e[2]
              /\ \A j \in 0..MaxIndex : columnIndexToLetter(j) = result.val => j = args.index
              /\ \A t \in ColumnTexts : BijectiveNumber(t) = args.index + 1 => t = result.val
              /\ (args.index \div 26) - 1 < args.index
              /\ (args.index \div 26) - 1 >= -1

\* The first column of three letters.
LetteringIsBijectiveBase26Witness ==
    /\ result.set
    /\ args.fn = "columnIndexToLetter"
    /\ args.index = 702
    /\ result.val = << "A", "A", "A" >>

\* ------------------------------------------------------------------------
\* Properties of applyLimit
\* ------------------------------------------------------------------------

\* C27: applyLimit returns the first min(len(rows), n) rows when the limit
\* n is positive and all the rows when it is zero or negative; what it
\* returns is never longer than the rows, has them in their order from the
\* first on, and applyLimit applied to it returns it again.
ApplyLimitReturnsAPrefix ==
    (result.set /\ args.fn = "applyLimit") =>
        LET out == result.val.out
        IN  /\ args.limit > 0 => out = SubSeq(args.rows, 1, Min(Len(args.rows), args.limit))
            /\ args.limit <= 0 => out = args.rows
            /\ Len(out) <= Len(args.rows)
            /\ \A i \in 1..Len(out) : out[i] = args.rows[i]
            /\ result.val.again = out

\* Three different rows under a limit of two: the first two come back.
ApplyLimitReturnsAPrefixWitness ==
    /\ result.set
    /\ args.fn = "applyLimit"
    /\ args.limit = 2
    /\ args.rows = << RowBo, RowShort, RowAl >>
    /\ result.val.out = << RowBo, RowShort >>
    /\ result.val.again = << RowBo, RowShort >>

\* ------------------------------------------------------------------------
\* Properties of the checks on the shape of records and destinations
\* ------------------------------------------------------------------------

\* C28: the shape of the argument is looked at only once there is a row to
\* encode or decode.  An UpdateWhere with a record that is no struct, after
\* a Read that succeeded, issues no Write and leaves the sheet as it is; it
\* returns nil when the sheet has fewer than two rows or no row matches,
\* and the error of the record's shape when at least one row matches.  A
\* Get with a destination that is no pointer to a slice, after a Read that
\* succeeded, returns nil when the Read gave fewer than two rows and the
\* error of the destination's shape when it gave two or more, whether or
\* not a row passes the filters.
ShapeIsValidatedLazily ==
    /\ (pc = "done" /\ op.name = "UpdateWhere" /\ calls[1].ok
           /\ structToValues(op.record).err # ErrNil) =>
          /\ calls = << Call("Read", TableName, << >>, << >>, TRUE) >>
          /\ sheet = data
          /\ (Len(data) < 2 \/ MatchPositions(data, op.filter) = { }) => err = ErrNil
          /\ (Len(data) >= 2 /\ MatchPositions(data, op.filter) # { }) =>
                err = << "failed to convert record", "record must be a struct" >>
    /\ (pc = "done" /\ op.name = "Get" /\ calls[1].ok /\ op.dest.k # "ptrslice") =>
          /\ calls = << Call("Read", TableName, << >>, << >>, TRUE) >>
          /\ dest = op.dest
          /\ Len(data) < 2 => err = ErrNil
          /\ Len(data) >= 2 => err = << "dest must be a pointer to a slice" >>

\* A Get into a struct value on a sheet with data rows of which the filters
\* of the query let none through: it returned the error of the shape.
ShapeIsValidatedLazilyWitness ==
    /\ pc = "done"
    /\ op.name = "Get"
    /\ op.dest = UserZero
    /\ calls = << Call("Read", TableName, << >>, << >>, TRUE) >>
    /\ Len(data) >= 3
    /\ Len(q.filters) >= 1
    /\ applyFilters(q, Tail(data), data[1]) = << >>
    /\ err = << "dest must be a pointer to a slice" >>

\* ------------------------------------------------------------------------
\* Properties of the two implementations of the filter
\* ------------------------------------------------------------------------

\* The 0-based positions, ascending, of the data rows that the UpdateWhere
\* or DeleteWhere under way has selected.
SelectedPositions ==
    IF op.name = "UpdateWhere" THEN indices
    ELSE [k \in 1..Len(indices) |-> indices[Len(indices) + 1 - k] - 1]

\* C29: matchesFilter of a row, a header and a filter is what
\* Query.matchesFilters returns for the query whose one filter it is; and
\* when a Get of a query with that one filter and no limit has returned,
\* an UpdateWhere or DeleteWhere with the same filter on the same sheet
\* selects the data rows that passed the filters of the Get, at their
\* positions: the Get left in the destination the records of exactly
\* these rows, in their order.
FilterImplementationsAgree ==
    /\ (result.set /\ args.fn = "matchesFilter") =>
          result.val = matchesFilters(<< args.filter >>, args.row, args.headers)
    /\ (/\ op.name \in { "UpdateWhere", "DeleteWhere" }
        /\ env # << >>
        /\ env[1].err = ErrNil
        /\ env[1].q.filters = << op.filter >>
        /\ env[1].q.limit <= 0
        /\ calls[2].ok
        /\ data = env[1].data) =>
          LET sel == SelectedPositions
          IN  /\ \A k \in 1..Len(sel) : sel[k] \in 0..(Len(data) - 2)
              /\ \A k \in 1..(Len(sel) - 1) : sel[k] < sel[k + 1]
              /\ Len(data) >= 2 =>
                    /\ \A p \in 0..(Len(data) - 2) :
                          (\E k \in 1..Len(sel) : sel[k] = p)
                             <=> matchesFilters(env[1].q.filters, data[p + 2], data[1])
                    /\ applyFilters(env[1].q, Tail(data), data[1])
                          = [k \in 1..Len(sel) |-> data[sel[k] + 2]]
                    /\ env[1].dest.items
                          = [k \in 1..Len(sel) |-> scanRow(data[sel[k] + 2], data[1], UserZero)]
              /\ Len(data) < 2 => (sel = << >> /\ env[1].dest.items = << >>)

\* Under the header that names the Name column twice, a Get for the names
\* other than Bo returned the first and the third row, and the DeleteWhere
\* with the same filter is about to delete the rows 3 and 1.
FilterImplementationsAgreeWitness ==
    /\ op.name = "DeleteWhere"
    /\ pc = "dw_delete"
    /\ op.filter = Filter(ColName, OpNe, StrV(<< "B", "o" >>))
    /\ env # << >>
    /\ env[1].q.filters = << op.filter >>
    /\ env[1].err = ErrNil
    /\ data = env[1].data
    /\ data[1] = HeaderNameTwice
    /\ indices = << 3, 1 >>
    /\ env[1].dest.items = << User(<< "A", "l" >>, << >>, 30), User(<< "a", "l" >>, << >>, 0) >>

\* ------------------------------------------------------------------------
\* Properties of the cells that Update and UpdateWhere write
\* ------------------------------------------------------------------------

\* The call c is a Write of the one row of the record at the columns from A
\* on of sheet row r, and if it succeeded the sheet has the cells of the
\* row there, first cell in column A.
WroteRowFromColumnA(c, record, r) ==
    LET row == RowOf(record)
        start == TableName \o << "!", "A" >> \o Itoa(r) \o << ":" >>
    IN  /\ c.fn = "Write"
        /\ c.values = << row >>
        /\ Len(c.range) > Len(start)
        /\ SubSeq(c.range, 1, Len(start)) = start
        /\ c.ok => /\ Len(sheet) >= r
                   /\ Len(sheet[r]) >= Len(row)
                   /\ \A k \in 1..Len(row) : sheet[r][k] = storeCell(row[k])

\* C30: Update issues no Read; with a struct and any row index i that is
\* not negative, also one past the last row of the sheet, it issues one
\* Write of the record's row at sheet row i + 2, and every Write of
\* UpdateWhere is of the record's row; the k-th cell written is the k-th
\* field that is not ignored, from column A on, whatever the header of the
\* sheet is; and a Get after a successful Update(i, rec) decodes at
\* position i what the header of the sheet makes of these cells.
UpdateWritesByPosition ==
    /\ (op.name = "Update" /\ env = << >>) =>
          /\ \A k \in 1..Len(calls) : calls[k].fn # "Read"
          /\ (op.rowIndex >= 0 /\ IsStructure(op.record)) =>
                /\ Len(calls) = 1
                /\ WroteRowFromColumnA(calls[1], op.record, op.rowIndex + 2)
                /\ err = ErrNil <=> calls[1].ok
    /\ (op.name = "UpdateWhere" /\ env = << >>) =>
          \A k \in 2..Len(calls) :
              WroteRowFromColumnA(calls[k], op.record, parseRange(calls[k].range).startRow)
    /\ (/\ op.name = "Get" /\ pc = "done" /\ err = ErrNil
        /\ env # << >> /\ env[1].op.name = "Update" /\ env[1].err = ErrNil
        /\ env[1].op.rowIndex >= 0) =>
          LET i == env[1].op.rowIndex
              row == RowOf(env[1].op.record)
          IN  /\ Len(data) >= i + 2
              /\ \A k \in 1..Len(row) : data[i + 2][k] = storeCell(row[k])
              /\ Len(dest.items) = Len(data) - 1
              /\ dest.items[i + 1] = scanRow(data[i + 2], data[1], UserZero)

\* On the sheet whose header reads Age, Name and that has two data rows,
\* Update(3, User{Name: "Cy", Age: 41}) succeeded and wrote sheet row 5; the
\* Get after it decoded there a User whose Name is "41" and whose Age is 0.
UpdateWritesByPositionWitness ==
    /\ op.name = "Get"
    /\ pc = "done"
    /\ err = ErrNil
    /\ env # << >>
    /\ env[1].op = [name |-> "Update", rowIndex |-> 3, record |-> UserCy]
    /\ env[1].err = ErrNil
    /\ \A k \in 1..Len(calls) : calls[k].fn = "Read" => k = 2
    /\ data[1] = HeaderSwapped
    /\ Len(data) = 5
    /\ data[5] = << StrV(<< "C", "y" >>), FloatV(41, 0) >>
    /\ dest.items[4] = User(<< "4", "1" >>, << >>, 0)

====
